---- MODULE Spec2Model ----
(***************************************************************************)
(* A model of the clabernetes in-pod launcher (VXLAN link manager, tunnels *)
(* cache, pod-net snapshot replay, interface naming), of the native-mode   *)
(* override engine and of the controller's deployment and NAD reconcilers. *)
(*                                                                         *)
(* The source tree holds more than one revision of several functions.     *)
(* Where two revisions differ, both are modelled and the suffix of the     *)
(* definition names the revision:                                          *)
(*   _A  launcher/connectivity/vxlan.go:1-479, launcher/connectivity.go,   *)
(*       unnamed/part_006:1-290                                            *)
(*   _B  launcher/connectivity/vxlan.go:481-936, unnamed/part_007,         *)
(*       unnamed/part_006:292-588                                          *)
(* The variable rev says which revision the running launcher was built     *)
(* from.  launcher/connectivity/vxlan.go:938-1285 is a third revision of   *)
(* the manager: updateVxlanTunnels, Run and resolveVXLANService are those  *)
(* of _B, the interface names are "<node>-<ifname>" unsanitized; it is not *)
(* modelled apart.  controllers/topology/nativemode/linux.go holds two     *)
(* revisions of applyJuniperVMX: _A at line 35, _B at line 95.  The        *)
(* native-mode overrides exist twice: as the nativemode package            *)
(* (ApplyNativeModeOverrides) and written out in renderDeploymentContainer *)
(* of controllers/topology/deployment.go; the definitions named nodeDef... *)
(* are those of the latter.                                                *)
(*                                                                         *)
(* Strings the code inspects byte by byte (interface names, node kinds,    *)
(* link endpoints) are sequences of one-character strings; strings it      *)
(* searches (images) or tests as a whole are sequences of one-character    *)
(* strings; strings it trims or splits at "/" (env names and values,       *)
(* paths, cmd) are sequences of tokens; strings it only passes on are TLA+ *)
(* strings.                                                                *)
(***************************************************************************)
EXTENDS Integers, Sequences, FiniteSets, TLC

VARIABLES
    rev,            \* revision of the launcher: "A" or "B"
    nativeMode,     \* LAUNCHER_NATIVE_MODE == "true"
    phase,          \* vxlanManager: "new", "loop" (Run is in its loop), "running"
                    \* (Run has started the watcher), "fatal"
    initialTunnels, \* vxlanManager.initialTunnels (list handed to NewManager)
    currentTunnels, \* vxlanManager.currentTunnels: LocalInterface -> tunnel
    prevTunnels,    \* currentTunnels as it was when the last handler started
    desired,        \* argument of the last updateVxlanTunnels call
    lastOp,         \* the last handler that ran: "none", "run" or "update";
                    \* "killed" when the launcher was killed in Run
    cmdLog,         \* commands the last handler (Run or update) issued, in order
    vxlanIfs,       \* kernel: names of the VXLAN interfaces that exist
    links,          \* kernel: names of the links (veth ends) that exist
    linksUp,        \* kernel: the links that are up
    pod,            \* "init" (setup container), "start" (launcher container
                    \* before connectivity()), "up" (manager made), "dead"
    file,           \* the tunnels cache file on the pod's shared volume
    filePrev,       \* the file as it was when the last launcher step started
    crTunnels,      \* the node's tunnels in the Connectivity record
    apiCalls,       \* cluster API requests the last launcher step made
    launcherOp,     \* the last launcher step: "none", "setup", "connectivity",
                    \* "restart" (the launcher container was started again)
    launcherRes,    \* its outcome: "none", "ok", "error" (returned before the
                    \* write of the cache file), "write-error", "killed", "fatal"
    apiErr,         \* the last launcher step asked the API and got no record
    setupRuns,      \* times the setup container has been started
    resolve,        \* a call of resolveVXLANService: its inputs and its result
    podnet,         \* the pod's eth0 and the replay of its snapshot
    overrides,      \* a node's deployment under ApplyNativeModeOverrides
    ctrl,           \* a step of a topology reconciler: its inputs and its result
    naming,         \* a call of the interface-name functions: input and result
    proxy,          \* the launcher's SSH proxy task (maybeStartVrnetlabSSHProxy)
    setup           \* the setup step's wait for the Connectivity record

vxVars == <<rev, nativeMode, phase, initialTunnels, currentTunnels, prevTunnels,
            desired, lastOp, cmdLog, vxlanIfs, links, linksUp>>
cacheVars == <<pod, file, filePrev, crTunnels, apiCalls, launcherOp, launcherRes,
               apiErr, setupRuns>>
auxVars == <<resolve, podnet, overrides, ctrl, naming, proxy, setup>>
vars == <<vxVars, cacheVars, auxVars>>

-----------------------------------------------------------------------------
(* Byte strings *)

UpperChars == <<"A","B","C","D","E","F","G","H","I","J","K","L","M",
                "N","O","P","Q","R","S","T","U","V","W","X","Y","Z">>
LowerChars == <<"a","b","c","d","e","f","g","h","i","j","k","l","m",
                "n","o","p","q","r","s","t","u","v","w","x","y","z">>
DigitChars == <<"0","1","2","3","4","5","6","7","8","9">>

Range(s) == { s[i] : i \in DOMAIN s }

\* A string is the sequence of its runes, each a one-character string. Two
\* kinds of rune cannot stand in a string literal and are written as the token
\* "U+" and four hex digits: the grave accent U+0060 and the white space of
\* U+2000 and beyond.
\* Latin1[n] is the rune of code point n, for n in 1..255
Latin1 ==
    <<"", "", "", "", "", "", "", "", "\t", "\n", "", "\f",
      "\r", "", "", "", "", "", "", "", "", "", "", "",
      "", "", "", "", "", "", "", " ", "!", "\"", "#", "$",
      "%", "&", "'", "(", ")", "*", "+", ",", "-", ".", "/", "0",
      "1", "2", "3", "4", "5", "6", "7", "8", "9", ":", ";", "<",
      "=", ">", "?", "@", "A", "B", "C", "D", "E", "F", "G", "H",
      "I", "J", "K", "L", "M", "N", "O", "P", "Q", "R", "S", "T",
      "U", "V", "W", "X", "Y", "Z", "[", "\\", "]", "^", "_", "U+0060",
      "a", "b", "c", "d", "e", "f", "g", "h", "i", "j", "k", "l",
      "m", "n", "o", "p", "q", "r", "s", "t", "u", "v", "w", "x",
      "y", "z", "{", "|", "}", "~", "", "", "", "", "", "",
      "", "", "", "", "", "", "", "", "", "", "", "",
      "", "", "", "", "", "", "", "", "", "", "", "",
      "", "", "", " ", "¡", "¢", "£", "¤", "¥", "¦", "§", "¨",
      "©", "ª", "«", "¬", "­", "®", "¯", "°", "±", "²", "³", "´",
      "µ", "¶", "·", "¸", "¹", "º", "»", "¼", "½", "¾", "¿", "À",
      "Á", "Â", "Ã", "Ä", "Å", "Æ", "Ç", "È", "É", "Ê", "Ë", "Ì",
      "Í", "Î", "Ï", "Ð", "Ñ", "Ò", "Ó", "Ô", "Õ", "Ö", "×", "Ø",
      "Ù", "Ú", "Û", "Ü", "Ý", "Þ", "ß", "à", "á", "â", "ã", "ä",
      "å", "æ", "ç", "è", "é", "ê", "ë", "ì", "í", "î", "ï", "ð",
      "ñ", "ò", "ó", "ô", "õ", "ö", "÷", "ø", "ù", "ú", "û", "ü",
      "ý", "þ", "ÿ">>
\* the runes beyond Latin-1 that have the White_Space property, and their
\* code points
SpaceRunes ==
    <<" ", "U+2000", "U+2001", "U+2002", "U+2003", "U+2004", "U+2005",
      "U+2006", "U+2007", "U+2008", "U+2009", "U+200A", "U+2028",
      "U+2029", "U+202F", "U+205F", "U+3000">>
SpaceRuneCodes ==
    <<5760, 8192, 8193, 8194, 8195, 8196, 8197, 8198, 8199, 8200, 8201, 8202,
      8232, 8233, 8239, 8287, 12288>>

\* the code point of a rune of Latin1 or SpaceRunes
CodePoint(c) ==
    IF c \in Range(Latin1) THEN CHOOSE i \in DOMAIN Latin1 : Latin1[i] = c
    ELSE SpaceRuneCodes[CHOOSE i \in DOMAIN SpaceRunes : SpaceRunes[i] = c]

\* utf8.AppendRune: the bytes of a rune below U+10000
Utf8(c) ==
    IF CodePoint(c) < 128 THEN <<CodePoint(c)>>
    ELSE IF CodePoint(c) < 2048
    THEN <<192 + (CodePoint(c) \div 64), 128 + (CodePoint(c) % 64)>>
    ELSE <<224 + (CodePoint(c) \div 4096), 128 + ((CodePoint(c) \div 64) % 64),
           128 + (CodePoint(c) % 64)>>

\* []byte(s)
RECURSIVE Bytes(_)
Bytes(s) ==
    IF s = <<>> THEN <<>>
    ELSE IF Len(s) = 1 THEN Utf8(s[1])
    ELSE Bytes(SubSeq(s, 1, Len(s) \div 2)) \o Bytes(SubSeq(s, (Len(s) \div 2) + 1, Len(s)))

\* len(s), in bytes
ByteLen(s) == Len(Bytes(s))

\* unicode.IsSpace: '\t', '\n', '\v', '\f', '\r', ' ', U+0085 (NEL), U+00A0 (NBSP)
\* and the runes of SpaceRunes
IsSpaceCh(c) ==
    \/ c \in {" ", "\t", "\n", "\r", "\f", Latin1[11], Latin1[133], Latin1[160]}
    \/ c \in Range(SpaceRunes)

\* strings.TrimSpace
TrimSpace(s) ==
    IF \A i \in DOMAIN s : IsSpaceCh(s[i]) THEN <<>>
    ELSE SubSeq(s,
                CHOOSE i \in DOMAIN s :
                    ~IsSpaceCh(s[i]) /\ \A j \in 1..(i - 1) : IsSpaceCh(s[j]),
                CHOOSE i \in DOMAIN s :
                    ~IsSpaceCh(s[i]) /\ \A j \in (i + 1)..Len(s) : IsSpaceCh(s[j]))

\* unicode.ToLower of a rune: the capitals of ASCII, and those of Latin-1
\* (U+00C0 to U+00DE but the multiplication sign U+00D7)
Latin1Capitals == { Latin1[n] : n \in (192..222) \ {215} }
ToLowerCh(c) ==
    IF c \in Range(UpperChars)
    THEN LowerChars[CHOOSE i \in DOMAIN UpperChars : UpperChars[i] = c]
    ELSE IF c \in Latin1Capitals THEN Latin1[CodePoint(c) + 32]
    ELSE c

\* strings.ToLower
ToLower(s) == [i \in DOMAIN s |-> ToLowerCh(s[i])]

\* strconv.Itoa, as the bytes of the decimal numeral of n >= 0
RECURSIVE itoaBytes(_)
itoaBytes(n) ==
    IF n < 10 THEN <<DigitChars[n + 1]>> ELSE Append(itoaBytes(n \div 10), DigitChars[(n % 10) + 1])

\* strings.Index(s, c) for a one-byte c, counted from 1; 0 when absent
IndexByte(s, c) ==
    IF \E i \in DOMAIN s : s[i] = c
    THEN CHOOSE i \in DOMAIN s : s[i] = c /\ \A j \in 1..(i - 1) : s[j] # c
    ELSE 0

\* strings.SplitN(s, c, 2): the part before the first c, and the part after it
BeforeByte(s, c) == IF IndexByte(s, c) = 0 THEN s ELSE SubSeq(s, 1, IndexByte(s, c) - 1)
AfterByte(s, c) == SubSeq(s, IndexByte(s, c) + 1, Len(s))

\* the string of a sequence of bytes or tokens
RECURSIVE StringOf(_)
StringOf(bytes) == IF bytes = <<>> THEN "" ELSE bytes[1] \o StringOf(Tail(bytes))

\* s[:n]
Prefix(s, n) == SubSeq(s, 1, IF Len(s) < n THEN Len(s) ELSE n)

\* strings.HasPrefix
HasPrefix(s, p) == Len(p) <= Len(s) /\ SubSeq(s, 1, Len(p)) = p

IfNameCharOK(c) ==
    \/ c \in Range(LowerChars)
    \/ c \in Range(UpperChars)
    \/ c \in Range(DigitChars)
    \/ c \in {"_", "-", "."}

\* strings.ReplaceAll of "/", ":" and " " by "-"
ReplaceSeparators(s) ==
    [i \in DOMAIN s |-> IF s[i] \in {"/", ":", " "} THEN "-" ELSE s[i]]

LinkStr == <<"l","i","n","k">>

linuxIfNameMaxLen == 15
vxlanIfPrefix == <<"v","x","-">>
vxlanHostSideMaxLen == linuxIfNameMaxLen - Len(vxlanIfPrefix)

HexChars == <<"0","1","2","3","4","5","6","7","8","9","a","b","c","d","e","f">>
\* crypto/sha1. A 32-bit word is the pair <<high 16 bits, low 16 bits>>.
Xor4 == [a \in 0..15 |-> [b \in 0..15 |->
           ((a + b) % 2) + 2 * (((a \div 2) + (b \div 2)) % 2)
           + 4 * (((a \div 4) + (b \div 4)) % 2) + 8 * (((a \div 8) + (b \div 8)) % 2)]]
And4 == [a \in 0..15 |-> [b \in 0..15 |->
           ((a % 2) * (b % 2)) + 2 * (((a \div 2) % 2) * ((b \div 2) % 2))
           + 4 * (((a \div 4) % 2) * ((b \div 4) % 2)) + 8 * ((a \div 8) * (b \div 8))]]
Nibbles(op, a, b) ==
    op[a % 16][b % 16] + 16 * op[(a \div 16) % 16][(b \div 16) % 16]
    + 256 * op[(a \div 256) % 16][(b \div 256) % 16] + 4096 * op[a \div 4096][b \div 4096]
WXor(p, q) == <<Nibbles(Xor4, p[1], q[1]), Nibbles(Xor4, p[2], q[2])>>
WAnd(p, q) == <<Nibbles(And4, p[1], q[1]), Nibbles(And4, p[2], q[2])>>
WAdd(p, q) == <<(p[1] + q[1] + ((p[2] + q[2]) \div 65536)) % 65536, (p[2] + q[2]) % 65536>>
\* rotate left by n < 16 bits, and by 30 bits
Rotl(p, n) == <<((p[1] * (2^n)) % 65536) + (p[2] \div (2^(16 - n))),
                ((p[2] * (2^n)) % 65536) + (p[1] \div (2^(16 - n)))>>
Rotl30(p) == <<(p[1] \div 4) + ((p[2] % 4) * 16384), (p[2] \div 4) + ((p[1] % 4) * 16384)>>
\* the padded message of the bytes b: b, 0x80, zeros up to 56 modulo 64, and
\* the bit length in 8 bytes, of which the last four can differ from 0
PaddedLen(n) == 64 * (((n + 8) \div 64) + 1)
PadByte(b, j) ==
    IF j <= Len(b) THEN b[j]
    ELSE IF j = Len(b) + 1 THEN 128
    ELSE IF j > PaddedLen(Len(b)) - 4
    THEN ((8 * Len(b)) \div (256 ^ (PaddedLen(Len(b)) - j))) % 256
    ELSE 0
\* the k-th block of 64 bytes, as 16 words
Block(b, k) ==
    [i \in 1..16 |->
        <<256 * PadByte(b, 64 * (k - 1) + 4 * i - 3) + PadByte(b, 64 * (k - 1) + 4 * i - 2),
          256 * PadByte(b, 64 * (k - 1) + 4 * i - 1) + PadByte(b, 64 * (k - 1) + 4 * i)>>]
\* the message schedule w[17..80]; each half is computed before the next
Extend(w, t) ==
    Append(w, Rotl(WXor(WXor(w[t - 3], w[t - 8]), WXor(w[t - 14], w[t - 16])), 1))
RECURSIVE Schedule(_, _, _)
Schedule(w, lo, hi) ==
    IF lo = hi THEN Extend(w, lo)
    ELSE CHOOSE r \in { Schedule(v, ((lo + hi) \div 2) + 1, hi) :
                         v \in { Schedule(w, lo, (lo + hi) \div 2) } } : TRUE
RoundF(t, b, c, d) ==
    IF t <= 20 THEN WXor(d, WAnd(b, WXor(c, d)))
    ELSE IF t > 40 /\ t <= 60 THEN WXor(WAnd(b, c), WAnd(d, WXor(b, c)))
    ELSE WXor(b, WXor(c, d))
RoundK(t) ==
    IF t <= 20 THEN <<23170, 31129>>
    ELSE IF t <= 40 THEN <<28377, 60321>>
    ELSE IF t <= 60 THEN <<36635, 48348>>
    ELSE <<51810, 49622>>
Round(s, wt, t) ==
    <<WAdd(WAdd(WAdd(WAdd(Rotl(s[1], 5), RoundF(t, s[2], s[3], s[4])), s[5]), RoundK(t)), wt),
      s[1], Rotl30(s[2]), s[3], s[4]>>
RECURSIVE Rounds(_, _, _, _)
Rounds(s, w, lo, hi) ==
    IF lo = hi THEN Round(s, w[lo], lo)
    ELSE CHOOSE r \in { Rounds(n, w, ((lo + hi) \div 2) + 1, hi) :
                         n \in { Rounds(s, w, lo, (lo + hi) \div 2) } } : TRUE
H0 == << <<26437, 8961>>, <<61389, 43913>>, <<39098, 56574>>, <<4146, 21622>>, <<50130, 57840>> >>
\* one block: the 80 rounds from the state h, added to h
Compress(h, w) ==
    CHOOSE r \in { [i \in 1..5 |-> WAdd(h[i], n[i])] :
                     n \in { Rounds(h, Schedule(w, 17, 80), 1, 80) } } : TRUE
\* the blocks k.. of the padded message, from the state h
RECURSIVE Digest(_, _, _)
Digest(h, b, k) ==
    IF 64 * (k - 1) >= PaddedLen(Len(b)) THEN h
    ELSE CHOOSE r \in { Digest(n, b, k + 1) : n \in { Compress(h, Block(b, k)) } } : TRUE
\* sha1.Sum([]byte(m)), as five words
Sum(m) == CHOOSE d \in { Digest(H0, b, 1) : b \in { Bytes(m) } } : TRUE
Hex16(n) == <<HexChars[(n \div 4096) + 1], HexChars[((n \div 256) % 16) + 1],
              HexChars[((n \div 16) % 16) + 1], HexChars[(n % 16) + 1]>>
HexWord(p) == Hex16(p[1]) \o Hex16(p[2])
\* hex.EncodeToString
HexOf(d) == HexWord(d[1]) \o HexWord(d[2]) \o HexWord(d[3]) \o HexWord(d[4]) \o HexWord(d[5])
\* hex.EncodeToString(sha1.Sum(s)): 40 hex digits
sha1Hex(s) == HexOf(Sum(s))

\* if s == "" { s = d }
OrDefault(s, d) == IF s = <<>> THEN d ELSE s

\* the bytes of the trimmed name that an interface name may hold, after "/",
\* ":" and " " became "-"
keepIfNameBytes(raw) == SelectSeq(ReplaceSeparators(TrimSpace(raw)), IfNameCharOK)

\* sanitizeLinuxIfName, revision B: truncates to 15 bytes and lowercases.
sanitizeLinuxIfName_B(raw) ==
    ToLower(Prefix(OrDefault(keepIfNameBytes(raw), LinkStr), linuxIfNameMaxLen))

\* the tail of sanitizeLinuxIfName, revision A, for a name b of more than 15
\* bytes: s[:prefixLen] + "-" + suffix, suffix the first 6 hex digits of SHA-1
shortenWithHash_A(b, suffix) ==
    IF 15 - 1 - Len(suffix) < 1 THEN Prefix(suffix, 15)
    ELSE SubSeq(b, 1, 15 - 1 - Len(suffix)) \o <<"-">> \o suffix

hashTail_A(b) ==
    IF Len(b) <= 15 THEN b ELSE shortenWithHash_A(b, SubSeq(sha1Hex(b), 1, 6))

\* sanitizeLinuxIfName, revision A: keeps the case, and replaces the tail of an
\* over-long name by "-" and the first 6 hex digits of its SHA-1.
sanitizeLinuxIfName_A(raw) == hashTail_A(OrDefault(keepIfNameBytes(raw), LinkStr))

\* the hashed form of vxlanHostSideLinkName: node[:3] + link[:3] + hash[:remain]
hostSideHashed(node, link, hash) ==
    IF Len(hash) < vxlanHostSideMaxLen THEN hash
    ELSE IF vxlanHostSideMaxLen - (Len(node) + Len(link)) <= 0
    THEN Prefix(node \o link, vxlanHostSideMaxLen)
    ELSE Prefix(node \o link
                  \o SubSeq(hash, 1, vxlanHostSideMaxLen - (Len(node) + Len(link))),
                vxlanHostSideMaxLen)

\* fmt.Sprintf("%s-%s", localNodeName, link)
hostSideName_A(localNodeName, link) == localNodeName \o <<"-">> \o link

\* the name without the 12-byte limit
vxlanHostSideLinkName_unbounded(localNodeName, cntLink) ==
    hostSideName_A(localNodeName, cntLink)

\* vxlanHostSideLinkName (revision B only); cntLink is a sanitized name, of
\* one byte a rune
vxlanHostSideLinkName(localNodeName, cntLink) ==
    IF ByteLen(hostSideName_A(localNodeName, cntLink)) <= vxlanHostSideMaxLen
    THEN hostSideName_A(localNodeName, cntLink)
    ELSE hostSideHashed(Prefix(OrDefault(sanitizeLinuxIfName_B(localNodeName), <<"n">>), 3),
                        Prefix(OrDefault(cntLink, <<"l">>), 3),
                        sha1Hex(hostSideName_A(localNodeName, cntLink)))

-----------------------------------------------------------------------------
(* The VXLAN link manager: launcher/connectivity/vxlan.go *)

Revs == {"A", "B"}

NodeN1 == <<"n","1">>
IfNames == { <<"e","1">>, <<"E","/","2">> }
IPLiterals == { "10.0.0.2" }
Destinations == { "10.0.0.2", "t1-n2.ns" }
VXLANServicePort == 6784

\* net.ParseIP(d) != nil
IsIPLiteral(d) == d \in IPLiterals

\* clabernetesapisv1alpha1.PointToPointTunnel, as the manager reads it
Tunnel(ifc, dst) ==
    [LocalNode |-> NodeN1, LocalInterface |-> ifc, RemoteNode |-> "n2",
     Destination |-> dst, TunnelID |-> 100]
Tunnels == { Tunnel(i, d) : i \in IfNames, d \in Destinations }

SeqsUpTo(S, n) == UNION { [1..k -> S] : k \in 0..n }

\* a Connectivity record lists one tunnel per local interface of the node
TunnelLists ==
    { l \in SeqsUpTo(Tunnels, Cardinality(IfNames)) :
        \A i, j \in DOMAIN l : i # j => l[i].LocalInterface # l[j].LocalInterface }

\* the commands whose failure the environment decides, by the step that issues
\* them and the local interface of the tunnel they are issued for: a command
\* of a handler call fails on its own, whatever the same command did for the
\* tunnel before it
FailSteps ==
    { <<"resolve", "create">>, <<"vxlan-delete", "extraneous">>,
      <<"vxlan-delete", "replace">>, <<"vxlan-delete", "precreate">>,
      <<"link-add", "create">>, <<"link-up", "create">>, <<"link-up-peer", "create">>,
      <<"vxlan-create", "create">> }
FailPoints == { <<p[1], p[2], i>> : p \in FailSteps, i \in IfNames }
\* the failure of a pre-create delete is logged and the create goes on
\* (Warnf), so one handler call can meet it for every tunnel, and another
\* failure after it; every other failure ends the call (Fatalf), so a call
\* meets at most one of those
PreDeletePoints == { <<"vxlan-delete", "precreate", i>> : i \in IfNames }
FailureSetsOf(points) ==
    { D \cup F : D \in SUBSET (points \cap PreDeletePoints),
                 F \in {{}} \cup { {p} : p \in points \ PreDeletePoints } }
\* the environment decides for the commands a call can issue. The create path
\* of a tunnel issues the commands of the steps "create" and "precreate" for
\* the tunnel's local interface
CreatePoints(list) ==
    { p \in FailPoints :
        /\ p[2] \in {"create", "precreate"}
        /\ \E j \in DOMAIN list : list[j].LocalInterface = p[3] }

Cmd(op, arg, step, ifc, ok) ==
    [op |-> op, arg |-> arg, step |-> step, ifc |-> ifc, ok |-> ok]

\* the running state of a handler: the commands issued, the kernel, the error
St(log, vx, ln, up, err) == [log |-> log, vx |-> vx, ln |-> ln, up |-> up, err |-> err]

\* the names derived from the model's interface names, tabulated once
LinkTable_A == [i \in IfNames |-> sanitizeLinuxIfName_A(i)]
LinkTable_B == [i \in IfNames |-> sanitizeLinuxIfName_B(i)]
HostSideTable_A == [i \in IfNames |-> hostSideName_A(NodeN1, LinkTable_A[i])]
HostSideTable_B == [i \in IfNames |-> vxlanHostSideLinkName(NodeN1, LinkTable_B[i])]
RawHostSideTable_A == [i \in IfNames |-> hostSideName_A(NodeN1, i)]

\* link and host-side names of a tunnel on the create path:
\* link := sanitizeLinuxIfName(cntLink); hostSide := "<node>-<link>" (revision A)
\* or vxlanHostSideLinkName(node, link) (revision B)
createLink(rv, ifc) == IF rv = "A" THEN LinkTable_A[ifc] ELSE LinkTable_B[ifc]
createHostSide(rv, ifc) == IF rv = "A" THEN HostSideTable_A[ifc] ELSE HostSideTable_B[ifc]

\* the --prefix updateVxlanTunnels hands to the delete tool for a tunnel:
\* revision A passes the raw LocalInterface, revision B sanitizes it first
updateDeletePrefix(rv, t) ==
    IF rv = "A"
    THEN vxlanIfPrefix \o RawHostSideTable_A[t.LocalInterface]
    ELSE vxlanIfPrefix \o HostSideTable_B[t.LocalInterface]

\* runContainerlabVxlanToolsDelete: "containerlab tools vxlan delete --prefix p"
\* removes every VXLAN interface whose name starts with p
runContainerlabVxlanToolsDelete(st, prefix, step, ifc, fails) ==
    LET ok == <<"vxlan-delete", step, ifc>> \notin fails
    IN  St(Append(st.log, Cmd("vxlan-delete", prefix, step, ifc, ok)),
           IF ok THEN { v \in st.vx : ~HasPrefix(v, prefix) } ELSE st.vx,
           st.ln, st.up, IF ok THEN st.err ELSE "delete")

\* ensurePodLinkExists(hostSide, cntLink)
ensurePodLinkExists(st, hostSide, cntLink, ifc, fails) ==
    LET show1 == Cmd("link-show", hostSide, "create", ifc, hostSide \in st.ln)
        show2 == Cmd("link-show", cntLink, "create", ifc, cntLink \in st.ln)
        addOk == <<"link-add", "create", ifc>> \notin fails
        add   == Cmd("link-add", hostSide, "create", ifc, addOk)
        upOk  == <<"link-up", "create", ifc>> \notin fails
        upH   == Cmd("link-up", hostSide, "create", ifc, upOk)
        upCOk == <<"link-up-peer", "create", ifc>> \notin fails
        upC   == Cmd("link-up", cntLink, "create", ifc, upCOk)
        ln2   == st.ln \cup {hostSide, cntLink}
    IN  IF hostSide \in st.ln
        THEN St(Append(st.log, show1), st.vx, st.ln, st.up, st.err)
        ELSE IF cntLink \in st.ln
        THEN St(st.log \o <<show1, show2>>, st.vx, st.ln, st.up, "collision")
        ELSE IF ~addOk
        THEN St(st.log \o <<show1, show2, add>>, st.vx, st.ln, st.up, "link-add")
        ELSE IF ~upOk
        THEN St(st.log \o <<show1, show2, add, upH>>, st.vx, ln2, st.up, "link-up")
        ELSE IF ~upCOk
        THEN St(st.log \o <<show1, show2, add, upH, upC>>, st.vx, ln2,
                st.up \cup {hostSide}, "link-up-peer")
        ELSE St(st.log \o <<show1, show2, add, upH, upC>>, st.vx, ln2,
                st.up \cup {hostSide, cntLink}, st.err)

\* a step of a function that has already returned its error is not executed
ignoreErr(s) == St(s.log, s.vx, s.ln, s.up, "none")

\* runContainerlabVxlanToolsCreate, first part: the destination is resolved
\* (revision A: only when it is not an IP literal)
createResolve(st, rv, t, fails) ==
    IF rv = "B" \/ ~IsIPLiteral(t.Destination)
    THEN St(Append(st.log, Cmd("resolve", <<>>, "create", t.LocalInterface,
                               <<"resolve", "create", t.LocalInterface>> \notin fails)),
            st.vx, st.ln, st.up,
            IF <<"resolve", "create", t.LocalInterface>> \notin fails
            THEN st.err ELSE "resolve")
    ELSE st

\* a pre-create delete whose failure is returned
createPreDelete_fatal(st, vxName, ifc, fails) ==
    IF st.err # "none" THEN st
    ELSE runContainerlabVxlanToolsDelete(st, vxName, "precreate", ifc, fails)

\* second part: the delete of a stale interface of the same name, whose
\* failure is only logged
createPreDelete(st, vxName, ifc, fails) ==
    IF st.err # "none" THEN st
    ELSE ignoreErr(runContainerlabVxlanToolsDelete(st, vxName, "precreate", ifc, fails))

\* third part: the veth pair (revision B: in native mode only)
createEnsureLink(st, rv, native, hostSide, link, ifc, fails) ==
    IF st.err # "none" THEN st
    ELSE IF rv = "A" \/ native
    THEN ensurePodLinkExists(st, hostSide, link, ifc, fails)
    ELSE st

\* last part: "containerlab tools vxlan create"; the tool fails when the
\* interface it is to create exists
createVxlan(st, hostSide, ifc, ok) ==
    IF st.err # "none" THEN st
    ELSE IF ok /\ (vxlanIfPrefix \o hostSide) \notin st.vx
    THEN St(Append(st.log, Cmd("vxlan-create", hostSide, "create", ifc, TRUE)),
            st.vx \cup {vxlanIfPrefix \o hostSide}, st.ln, st.up, st.err)
    ELSE St(Append(st.log, Cmd("vxlan-create", hostSide, "create", ifc, FALSE)),
            st.vx, st.ln, st.up, "create")

\* runContainerlabVxlanToolsCreate(localNodeName, cntLink, vxlanRemote, vxlanID)
runContainerlabVxlanToolsCreate(st, rv, native, t, fails) ==
    createVxlan(
        createEnsureLink(
            createPreDelete(createResolve(st, rv, t, fails),
                            vxlanIfPrefix \o createHostSide(rv, t.LocalInterface),
                            t.LocalInterface, fails),
            rv, native, createHostSide(rv, t.LocalInterface),
            createLink(rv, t.LocalInterface), t.LocalInterface, fails),
        createHostSide(rv, t.LocalInterface), t.LocalInterface,
        <<"vxlan-create", "create", t.LocalInterface>> \notin fails)

\* the loop of Run: create each initial tunnel and store it; Fatalf on an error.
\* m.currentTunnels[tunnel.LocalInterface] = tunnel, after a create that succeeded
storeTunnel(r, t) ==
    IF r.st.err # "none" THEN r
    ELSE [st |-> r.st,
          cur |-> [k \in DOMAIN r.cur \cup {t.LocalInterface} |->
                      IF k = t.LocalInterface THEN t ELSE r.cur[k]]]

RECURSIVE runLoop(_, _, _, _, _, _)
runLoop(r, rv, native, list, i, fails) ==
    IF i > Len(list) \/ r.st.err # "none" THEN r
    ELSE runLoop(storeTunnel([st |-> runContainerlabVxlanToolsCreate(
                                          r.st, rv, native, list[i], fails),
                              cur |-> r.cur],
                             list[i]),
                 rv, native, list, i + 1, fails)

\* a first step that takes every current tunnel for extraneous
extraneousTunnels_all(cur, new) == DOMAIN cur

\* first step of updateVxlanTunnels: the current tunnels whose local interface
\* is not in the new list
extraneousTunnels(cur, new) ==
    { k \in DOMAIN cur : \A j \in DOMAIN new : new[j].LocalInterface # k }

\* a second step that skips the comparison with the current entry
needsReCreate_always(cur, t) == TRUE

\* second step: the new tunnels that are missing from, or unequal to, the map
needsReCreate(cur, t) ==
    ~(t.LocalInterface \in DOMAIN cur /\ cur[t.LocalInterface] = t)
tunnelsToReCreate(cur, new) == SelectSeq(new, LAMBDA t : needsReCreate(cur, t))

\* delete the extraneous tunnels, in the order the map iteration yields them
RECURSIVE deleteExtraneous(_, _, _, _, _, _)
deleteExtraneous(st, cur, rv, order, i, fails) ==
    IF i > Len(order) \/ st.err # "none" THEN st
    ELSE deleteExtraneous(
            runContainerlabVxlanToolsDelete(st, updateDeletePrefix(rv, cur[order[i]]),
                                            "extraneous", order[i], fails),
            cur, rv, order, i + 1, fails)

\* delete the existing tunnel of each new tunnel that replaces one
RECURSIVE deleteReplaced(_, _, _, _, _, _)
deleteReplaced(st, cur, rv, new, i, fails) ==
    IF i > Len(new) \/ st.err # "none" THEN st
    ELSE deleteReplaced(
            IF needsReCreate(cur, new[i]) /\ new[i].LocalInterface \in DOMAIN cur
            THEN runContainerlabVxlanToolsDelete(st, updateDeletePrefix(rv, new[i]),
                                                 "replace", new[i].LocalInterface, fails)
            ELSE st,
            cur, rv, new, i + 1, fails)

RECURSIVE createAll(_, _, _, _, _, _)
createAll(st, rv, native, list, i, fails) ==
    IF i > Len(list) \/ st.err # "none" THEN st
    ELSE createAll(runContainerlabVxlanToolsCreate(st, rv, native, list[i], fails),
                   rv, native, list, i + 1, fails)

\* the three loops with the creates moved to the front
updateVxlanTunnels_createFirst(st, cur, rv, native, new, order, fails) ==
    deleteReplaced(deleteExtraneous(
                       createAll(st, rv, native, tunnelsToReCreate(cur, new), 1, fails),
                       cur, rv, order, 1, fails),
                   cur, rv, new, 1, fails)

\* updateVxlanTunnels(tunnels): the three loops in the order of the code
updateVxlanTunnels(st, cur, rv, native, new, order, fails) ==
    createAll(deleteReplaced(deleteExtraneous(st, cur, rv, order, 1, fails),
                             cur, rv, new, 1, fails),
              rv, native, tunnelsToReCreate(cur, new), 1, fails)

\* the commands updateVxlanTunnels can issue: the delete of an extraneous
\* tunnel, the delete of a current tunnel that is replaced, and the create path
\* of the tunnels to re-create
UpdatePoints(cur, new) ==
    { p \in FailPoints :
        \/ p[2] = "extraneous" /\ p[3] \in extraneousTunnels(cur, new)
        \/ /\ p[2] = "replace"
           /\ p[3] \in DOMAIN cur
           /\ \E j \in DOMAIN new :
                 new[j].LocalInterface = p[3] /\ needsReCreate(cur, new[j]) }
      \cup CreatePoints(tunnelsToReCreate(cur, new))

Perms(S) == { p \in [1..Cardinality(S) -> S] : \A i, j \in DOMAIN p : i # j => p[i] # p[j] }

EmptyMap == [k \in {} |-> 0]

\* the cache file: missing, or its bytes
NoFile == [exists |-> FALSE, bytes |-> <<>>]

Idle == [pc |-> "idle"]
CtrlIdle == ctrl = Idle /\ naming = Idle
AuxIdle == resolve = Idle /\ podnet = Idle /\ overrides = Idle /\ CtrlIdle /\ proxy = Idle
           /\ setup = Idle

\* the manager on its own: NewManager was handed any tunnel list
CacheIdle ==
    /\ pod = "up"
    /\ file = NoFile
    /\ filePrev = NoFile
    /\ crTunnels = <<>>
    /\ apiCalls = 0
    /\ launcherOp = "none"
    /\ launcherRes = "none"
    /\ apiErr = FALSE
    /\ setupRuns = 0

VxNew ==
    /\ currentTunnels = EmptyMap
    /\ prevTunnels = EmptyMap
    /\ desired = <<>>
    /\ lastOp = "none"
    /\ cmdLog = <<>>
    /\ vxlanIfs = {}
    /\ links = {}
    /\ linksUp = {}

InitVx ==
    /\ rev \in Revs
    /\ nativeMode \in BOOLEAN
    /\ phase = "new"
    /\ initialTunnels \in TunnelLists
    /\ VxNew
    /\ CacheIdle
    /\ AuxIdle

\* vxlanManager.Run: the map is made, the initial tunnels are created, and only
\* then is the watcher that calls updateVxlanTunnels started
Run ==
    /\ phase = "new"
    /\ pod = "up"
    /\ \E fails \in FailureSetsOf(CreatePoints(initialTunnels)) :
         \E r \in { runLoop([st |-> St(<<>>, vxlanIfs, links, linksUp, "none"),
                             cur |-> EmptyMap],
                            rev, nativeMode, initialTunnels, 1, fails) } :
             /\ cmdLog' = r.st.log
             /\ vxlanIfs' = r.st.vx
             /\ links' = r.st.ln
             /\ linksUp' = r.st.up
             /\ currentTunnels' = r.cur
             /\ phase' = IF r.st.err = "none" THEN "running" ELSE "fatal"
    /\ prevTunnels' = EmptyMap
    /\ desired' = <<>>
    /\ lastOp' = "run"
    /\ UNCHANGED <<rev, nativeMode, initialTunnels>>
    /\ UNCHANGED <<cacheVars, auxVars>>

\* the watcher delivers the node's tunnels of an updated Connectivity record
UpdateVxlanTunnels ==
    /\ phase = "running"
    /\ \E new \in TunnelLists :
       \E fails \in FailureSetsOf(UpdatePoints(currentTunnels, new)),
          order \in Perms(extraneousTunnels(currentTunnels, new)) :
         \E s \in { updateVxlanTunnels(St(<<>>, vxlanIfs, links, linksUp, "none"),
                                       currentTunnels, rev, nativeMode, new, order, fails) } :
             /\ desired' = new
             /\ cmdLog' = s.log
             /\ vxlanIfs' = s.vx
             /\ links' = s.ln
             /\ linksUp' = s.up
             /\ phase' = IF s.err = "none" THEN "running" ELSE "fatal"
    /\ prevTunnels' = currentTunnels
    /\ lastOp' = "update"
    /\ UNCHANGED <<rev, nativeMode, initialTunnels, currentTunnels>>
    /\ UNCHANGED <<cacheVars, auxVars>>

Next == Run \/ UpdateVxlanTunnels

Spec == InitVx /\ [][Next]_vars

-----------------------------------------------------------------------------
(* The launcher container dies and is started again in the same pod: the     *)
(* pod's network namespace and the interfaces in it stay                     *)

\* the kernel after one command of the launcher
Kernel(vx, ln, up) == [vx |-> vx, ln |-> ln, up |-> up]
cmdEffect(k, rv, c) ==
    IF ~c.ok THEN k
    ELSE IF c.op = "vxlan-delete"
    THEN Kernel({ v \in k.vx : ~HasPrefix(v, c.arg) }, k.ln, k.up)
    ELSE IF c.op = "link-add"
    THEN Kernel(k.vx, k.ln \cup {c.arg, createLink(rv, c.ifc)}, k.up)
    ELSE IF c.op = "link-up"
    THEN Kernel(k.vx, k.ln, k.up \cup {c.arg})
    ELSE IF c.op = "vxlan-create"
    THEN Kernel(k.vx \cup {vxlanIfPrefix \o c.arg}, k.ln, k.up)
    ELSE k

\* the kernel after the first n commands of a log
RECURSIVE kernelAfter(_, _, _, _)
kernelAfter(k, rv, log, n) ==
    IF n = 0 THEN k
    ELSE cmdEffect(kernelAfter(k, rv, log, n - 1), rv, log[n])

\* interfaces with the bare name of a link that something else has put in the
\* pod's network namespace before the launcher starts
ForeignLinks == { {} } \cup { {createLink(r, i)} : r \in Revs, i \in IfNames }

InitRecover ==
    /\ rev \in Revs
    /\ nativeMode \in BOOLEAN
    /\ phase = "new"
    /\ initialTunnels \in TunnelLists
    /\ currentTunnels = EmptyMap
    /\ prevTunnels = EmptyMap
    /\ desired = <<>>
    /\ lastOp = "none"
    /\ cmdLog = <<>>
    /\ vxlanIfs = {}
    /\ links \in ForeignLinks
    /\ linksUp = links
    /\ CacheIdle
    /\ AuxIdle

\* the commands of a Run from the present kernel that no failure interrupts
UninterruptedLog ==
    runLoop([st |-> St(<<>>, vxlanIfs, links, linksUp, "none"), cur |-> EmptyMap],
            rev, nativeMode, initialTunnels, 1, {}).st.log

\* the launcher is killed in Run after n commands, before the last: the
\* commands issued have taken effect, the process is gone
RunKilled ==
    /\ phase = "new"
    /\ pod = "up"
    /\ \E n \in 0..(Len(UninterruptedLog) - 1) :
         /\ cmdLog' = SubSeq(UninterruptedLog, 1, n)
         /\ vxlanIfs' = kernelAfter(Kernel(vxlanIfs, links, linksUp), rev, cmdLog', n).vx
         /\ links' = kernelAfter(Kernel(vxlanIfs, links, linksUp), rev, cmdLog', n).ln
         /\ linksUp' = kernelAfter(Kernel(vxlanIfs, links, linksUp), rev, cmdLog', n).up
    /\ phase' = "fatal"
    /\ currentTunnels' = EmptyMap
    /\ prevTunnels' = EmptyMap
    /\ desired' = <<>>
    /\ lastOp' = "killed"
    /\ UNCHANGED <<rev, nativeMode, initialTunnels>>
    /\ UNCHANGED <<cacheVars, auxVars>>

\* the kubelet starts the launcher container again (restart policy Always);
\* the new process makes a new manager for the same tunnels
RestartLauncher ==
    /\ phase = "fatal"
    /\ pod = "up"
    /\ phase' = "new"
    /\ currentTunnels' = EmptyMap
    /\ prevTunnels' = EmptyMap
    /\ desired' = <<>>
    /\ lastOp' = "none"
    /\ cmdLog' = <<>>
    /\ launcherOp' = "restart"
    /\ UNCHANGED <<rev, nativeMode, initialTunnels, vxlanIfs, links, linksUp>>
    /\ UNCHANGED <<pod, file, filePrev, crTunnels, apiCalls, launcherRes, apiErr,
                   setupRuns, auxVars>>

NextRecover == Run \/ RunKilled \/ RestartLauncher

SpecRecover == InitRecover /\ [][NextRecover]_vars

-----------------------------------------------------------------------------
(* Run step by step: one iteration of its loop at a time, then the start of  *)
(* the Connectivity watcher                                                  *)

\* the iteration the loop of Run is at: the tunnels before it are stored
loopIndex == Cardinality(DOMAIN currentTunnels) + 1

\* a loop that is taken for finished before its first iteration
loopDone_atOnce == TRUE

\* the loop of Run has stored the last initial tunnel
loopDone == loopIndex > Len(initialTunnels)

\* one iteration: the create path of the tunnel, Fatalf on its error, else the
\* tunnel is stored in the map
RunTunnel ==
    /\ phase \in {"new", "loop"}
    /\ pod = "up"
    /\ ~loopDone
    /\ \E fails \in FailureSetsOf(CreatePoints(<<initialTunnels[loopIndex]>>)) :
       \E st \in { runContainerlabVxlanToolsCreate(
                       St(cmdLog, vxlanIfs, links, linksUp, "none"),
                       rev, nativeMode, initialTunnels[loopIndex], fails) } :
         /\ cmdLog' = st.log
         /\ vxlanIfs' = st.vx
         /\ links' = st.ln
         /\ linksUp' = st.up
         /\ currentTunnels' = storeTunnel([st |-> st, cur |-> currentTunnels],
                                          initialTunnels[loopIndex]).cur
         /\ phase' = IF st.err = "none" THEN "loop" ELSE "fatal"
    /\ lastOp' = "run"
    /\ UNCHANGED <<rev, nativeMode, initialTunnels, prevTunnels, desired>>
    /\ UNCHANGED <<cacheVars, auxVars>>

\* after the loop: "go watchConnectivity(..., m.updateVxlanTunnels)"
WatchConnectivity ==
    /\ phase \in {"new", "loop"}
    /\ pod = "up"
    /\ loopDone
    /\ phase' = "running"
    /\ lastOp' = "run"
    /\ UNCHANGED <<rev, nativeMode, initialTunnels, currentTunnels, prevTunnels,
                   desired, cmdLog, vxlanIfs, links, linksUp>>
    /\ UNCHANGED <<cacheVars, auxVars>>

NextWatch == RunTunnel \/ WatchConnectivity \/ UpdateVxlanTunnels

SpecWatch == InitVx /\ [][NextWatch]_vars

-----------------------------------------------------------------------------
(* The tunnels cache file: launcher/connectivity.go (revision A) and         *)
(* unnamed/part_007 (revision B)                                             *)

\* the environment the deployment renders for the launcher and the setup
\* container (controllers/topology/deployment.go, renderDeploymentContainerEnv)
PodEnv == [node |-> NodeN1, ns |-> "ns", topo |-> "t1"]

\* failed Get requests the setup step can meet before one succeeds
MaxFetchFailures == 2
\* times the setup container is started in the life of one pod
MaxSetupRuns == 3

\* json.Marshal of a tunnel list, as a sequence of tokens
tokObj(t) == <<[k |-> "{"], [k |-> "obj", v |-> t], [k |-> "}"]>>
RECURSIVE marshalElems(_, _)
marshalElems(list, i) ==
    IF i > Len(list) THEN <<>>
    ELSE (IF i > 1 THEN <<[k |-> ","]>> ELSE <<>>) \o tokObj(list[i])
         \o marshalElems(list, i + 1)
Marshal(list) == <<[k |-> "["]>> \o marshalElems(list, 1) \o <<[k |-> "]"]>>

\* json.Unmarshal into a tunnel list: the elements of a well-formed array, an
\* error for anything else
RECURSIVE parseElems(_, _, _)
parseElems(b, i, acc) ==
    IF i + 3 > Len(b) \/ b[i].k # "{" \/ b[i + 1].k # "obj" \/ b[i + 2].k # "}"
    THEN [ok |-> FALSE, v |-> <<>>]
    ELSE IF b[i + 3].k = "]"
    THEN [ok |-> i + 3 = Len(b), v |-> IF i + 3 = Len(b) THEN Append(acc, b[i + 1].v) ELSE <<>>]
    ELSE IF b[i + 3].k = ","
    THEN parseElems(b, i + 4, Append(acc, b[i + 1].v))
    ELSE [ok |-> FALSE, v |-> <<>>]
Unmarshal(b) ==
    IF Len(b) < 2 \/ b[1].k # "[" THEN [ok |-> FALSE, v |-> <<>>]
    ELSE IF b[2].k = "]" THEN [ok |-> Len(b) = 2, v |-> <<>>]
    ELSE parseElems(b, 2, <<>>)

\* what os.WriteFile can meet: no error, an error of its open, an error of
\* its write or close
WriteErrors == {"none", "open", "write"}

\* os.WriteFile opens the file with O_WRONLY|O_CREATE|O_TRUNC, writes and
\* closes.  An open that fails leaves the file as it was; after it the file is
\* there, truncated, with the first n bytes: all of them after a whole write,
\* fewer when the write failed or the setup container was killed meanwhile
writeFile(f, b, n, werr) ==
    IF werr = "open" THEN f
    ELSE IF n >= Len(b) THEN [exists |-> TRUE, bytes |-> b]
    ELSE [exists |-> TRUE, bytes |-> SubSeq(b, 1, n)]

\* a setup step that does not look at the file before it fetches
fileAlreadyPresent_never(f) == FALSE

\* cacheNodeTunnels: "if the tunnels file already exists and is non-empty"
fileAlreadyPresent(f) == f.exists /\ Len(f.bytes) > 0

Step(res, f, calls) == [res |-> res, file |-> f, calls |-> calls]

\* what cacheNodeTunnels does once the record is fetched: marshal and write;
\* the error of os.WriteFile is returned
cacheWrite(f, list, calls, n, werr) ==
    Step(IF werr # "none" THEN "write-error"
         ELSE IF n >= Len(Marshal(list)) THEN "ok" ELSE "killed",
         writeFile(f, Marshal(list), n, werr), calls)

\* cacheNodeTunnels, revision B.  mkdirOk: os.MkdirAll of the file's directory
\* succeeds; fetch = [ok, calls]: whether a Get succeeded before the deadline,
\* and the requests made; n: bytes written before a kill or a failure of the
\* write; werr: the error os.WriteFile meets
cacheNodeTunnels_B(f, env, cr, mkdirOk, fetch, n, werr) ==
    IF env.node = <<>> THEN Step("error", f, 0)
    ELSE IF fileAlreadyPresent(f) THEN Step("ok", f, 0)
    ELSE IF ~mkdirOk THEN Step("error", f, 0)
    ELSE IF ~fetch.ok THEN Step("error", f, fetch.calls)
    ELSE cacheWrite(f, cr, fetch.calls, n, werr)

\* resolveTunnelDestinationsToEndpointIPs: a destination that is not an IP
\* literal becomes the first address of the service's Endpoints
resolveTunnelDestinationsToEndpointIPs(list) ==
    [i \in DOMAIN list |->
        IF list[i].Destination = "" \/ IsIPLiteral(list[i].Destination) THEN list[i]
        ELSE [list[i] EXCEPT !.Destination = "10.0.0.2"]]

needsEndpointLookup(list) ==
    \E i \in DOMAIN list :
        list[i].Destination # "" /\ ~IsIPLiteral(list[i].Destination)

\* resolveServiceEndpointIP: "deadline := time.Now().Add(60 * time.Second)",
\* each Get under "context.WithTimeout(ctx, 5*time.Second)", and
\* "time.Sleep(1 * time.Second)" after a Get that gave no address
endpointDeadline == 60
endpointGetTimeout == 5
endpointRetryInterval == 1
\* the Gets of a lookup that gives up: one per iteration of its loop, each
\* iteration as long as a Get that times out and the sleep, or as the sleep
minEndpointGets == endpointDeadline \div (endpointGetTimeout + endpointRetryInterval)
maxEndpointGets == endpointDeadline \div endpointRetryInterval

\* what the lookup of one destination can come to: an address at the first or
\* at a later Get, or no address until the deadline
EndpointLookups ==
    { [ok |-> TRUE, calls |-> k] : k \in 1..2 }
    \cup { [ok |-> FALSE, calls |-> c] : c \in {minEndpointGets, maxEndpointGets} }

\* the loop of resolveTunnelDestinationsToEndpointIPs from tunnel i on: it
\* returns at the first lookup that fails.  eps[i]: the lookup of tunnel i;
\* yields whether every lookup gave an address and the Gets made
RECURSIVE endpointLookups(_, _, _, _)
endpointLookups(list, i, eps, calls) ==
    IF i > Len(list) THEN [ok |-> TRUE, calls |-> calls]
    ELSE IF list[i].Destination = "" \/ IsIPLiteral(list[i].Destination)
    THEN endpointLookups(list, i + 1, eps, calls)
    ELSE IF ~eps[i].ok THEN [ok |-> FALSE, calls |-> calls + eps[i].calls]
    ELSE endpointLookups(list, i + 1, eps, calls + eps[i].calls)

\* cacheNodeTunnels, revision A, once the record is read: the client of
\* resolveTunnelDestinationsToEndpointIPs is made (cfgOk: rest.InClusterConfig
\* and kubernetes.NewForConfig succeed), the destinations are resolved, the
\* list is marshalled and written
cacheResolved_A(f, cr, calls, cfgOk, ep, n, werr) ==
    IF ~cfgOk THEN Step("error", f, calls)
    ELSE IF ~ep.ok THEN Step("error", f, calls + ep.calls)
    ELSE cacheWrite(f, resolveTunnelDestinationsToEndpointIPs(cr), calls + ep.calls,
                    n, werr)

\* cacheNodeTunnels, revision A
cacheNodeTunnels_A(f, env, cr, mkdirOk, fetch, cfgOk, eps, n, werr) ==
    IF env.node = <<>> \/ env.ns = "" \/ env.topo = "" THEN Step("ok", f, 0)
    ELSE IF fileAlreadyPresent(f) THEN Step("ok", f, 0)
    ELSE IF ~mkdirOk THEN Step("error", f, 0)
    ELSE IF ~fetch.ok THEN Step("error", f, fetch.calls)
    ELSE cacheResolved_A(f, cr, fetch.calls, cfgOk, endpointLookups(cr, 1, eps, 0),
                         n, werr)

\* a launcher that never reads the file
getTunnelsFromFile_absent(f) == [err |-> "notfound", ok |-> FALSE, v |-> <<>>]

\* getTunnelsFromFile.  Revision A returns (tunnels, ok, err): a missing or an
\* empty file is (nil, false, nil); revision B returns errTunnelsCacheNotFound
\* for both, and both return the parse error of a file that does not parse
getTunnelsFromFile(f) ==
    IF ~f.exists \/ Len(f.bytes) = 0 THEN [err |-> "notfound", ok |-> FALSE, v |-> <<>>]
    ELSE IF ~Unmarshal(f.bytes).ok THEN [err |-> "parse", ok |-> FALSE, v |-> <<>>]
    ELSE [err |-> "none", ok |-> TRUE, v |-> Unmarshal(f.bytes).v]

Got(res, tunnels, calls) == [res |-> res, tunnels |-> tunnels, calls |-> calls]

\* the rest of getTunnels: the Get of the Connectivity record
getTunnelsFromAPI(cr, apiOk) ==
    IF apiOk THEN Got("ok", cr, 1) ELSE Got("error", <<>>, 1)

\* getTunnels, revision A: a parse error is returned, the API is asked only
\* when the file is missing or empty
getTunnelsAfterFile_A(r, cr, apiOk) ==
    IF r.err = "parse" THEN Got("error", <<>>, 0)
    ELSE IF r.ok THEN Got("ok", r.v, 0)
    ELSE getTunnelsFromAPI(cr, apiOk)
getTunnels_A(f, cr, apiOk) == getTunnelsAfterFile_A(getTunnelsFromFile(f), cr, apiOk)

\* getTunnels, revision B: any error of getTunnelsFromFile leads to the API
getTunnelsAfterFile_B(r, cr, apiOk) ==
    IF r.err = "none" THEN Got("ok", r.v, 0)
    ELSE getTunnelsFromAPI(cr, apiOk)
getTunnels_B(f, cr, apiOk) == getTunnelsAfterFile_B(getTunnelsFromFile(f), cr, apiOk)

Fetches ==
    { [ok |-> TRUE, calls |-> k + 1] : k \in 0..MaxFetchFailures }
    \cup { [ok |-> FALSE, calls |-> MaxFetchFailures + 1] }

\* a pod starts: in native mode with the setup init container, else with the
\* launcher; the shared volume is empty
InitCache ==
    /\ rev \in Revs
    /\ nativeMode \in BOOLEAN
    /\ phase = "none"
    /\ initialTunnels = <<>>
    /\ VxNew
    /\ pod = IF nativeMode THEN "init" ELSE "start"
    /\ file = NoFile
    /\ filePrev = NoFile
    /\ crTunnels \in TunnelLists
    /\ apiCalls = 0
    /\ launcherOp = "none"
    /\ launcherRes = "none"
    /\ apiErr = FALSE
    /\ setupRuns = 0
    /\ AuxIdle

\* the setup container runs cacheNodeTunnels.  The launcher container starts
\* when it succeeded; the kubelet starts the setup container again when it
\* failed or was killed
\* (an input that the run does not come to read takes one value)
CacheNodeTunnels ==
    /\ pod = "init"
    /\ setupRuns < MaxSetupRuns
    /\ \E mkdirOk \in IF fileAlreadyPresent(file) THEN {TRUE} ELSE BOOLEAN :
       \E fetch \in IF mkdirOk /\ ~fileAlreadyPresent(file) THEN Fetches
                     ELSE {[ok |-> FALSE, calls |-> MaxFetchFailures + 1]} :
       \E cfgOk \in IF rev = "A" /\ fetch.ok THEN BOOLEAN ELSE {TRUE} :
       \E eps \in IF rev = "A" /\ fetch.ok /\ cfgOk
                   THEN [DOMAIN crTunnels -> EndpointLookups]
                   ELSE {[i \in DOMAIN crTunnels |-> [ok |-> TRUE, calls |-> 1]]} :
       \E n \in IF fetch.ok THEN 0..(4 * Len(crTunnels) + 2) ELSE {0} :
       \E werr \in IF fetch.ok THEN WriteErrors ELSE {"none"} :
       \E r \in { IF rev = "A"
                   THEN cacheNodeTunnels_A(file, PodEnv, crTunnels, mkdirOk, fetch,
                                           cfgOk, eps, n, werr)
                   ELSE cacheNodeTunnels_B(file, PodEnv, crTunnels, mkdirOk, fetch,
                                           n, werr) } :
         /\ file' = r.file
         /\ apiCalls' = r.calls
         /\ launcherRes' = r.res
         /\ apiErr' = (r.calls > 0 /\ ~fetch.ok)
         /\ pod' = IF r.res = "ok" THEN "start" ELSE "init"
    /\ filePrev' = file
    /\ launcherOp' = "setup"
    /\ setupRuns' = setupRuns + 1
    /\ UNCHANGED <<crTunnels, vxVars, auxVars>>

\* the pod's sandbox is made anew: the init containers run again, the volume
\* and its file stay
SandboxRestart ==
    /\ nativeMode
    /\ pod \in {"start", "dead"} \/ (pod = "up" /\ phase # "new")
    /\ setupRuns < MaxSetupRuns
    /\ pod' = "init"
    /\ phase' = "none"
    /\ initialTunnels' = <<>>
    /\ currentTunnels' = EmptyMap
    /\ prevTunnels' = EmptyMap
    /\ desired' = <<>>
    /\ lastOp' = "none"
    /\ cmdLog' = <<>>
    /\ vxlanIfs' = {}
    /\ links' = {}
    /\ linksUp' = {}
    /\ apiCalls' = 0
    /\ launcherOp' = "none"
    /\ launcherRes' = "none"
    /\ apiErr' = FALSE
    /\ UNCHANGED <<rev, nativeMode, file, filePrev, crTunnels, setupRuns, auxVars>>

\* clabernetes.connectivity: getTunnels, Fatalf on its error, else NewManager
\* with the tunnels; the manager's Run follows
Connectivity ==
    /\ pod = "start"
    /\ \E apiOk \in BOOLEAN :
         LET g == IF rev = "A" THEN getTunnels_A(file, crTunnels, apiOk)
                  ELSE getTunnels_B(file, crTunnels, apiOk)
         IN  /\ apiCalls' = g.calls
             /\ apiErr' = (g.calls > 0 /\ ~apiOk)
             /\ launcherRes' = IF g.res = "ok" THEN "ok" ELSE "fatal"
             /\ pod' = IF g.res = "ok" THEN "up" ELSE "dead"
             /\ phase' = IF g.res = "ok" THEN "new" ELSE "fatal"
             /\ initialTunnels' = g.tunnels
    /\ filePrev' = file
    /\ launcherOp' = "connectivity"
    /\ UNCHANGED <<rev, nativeMode, currentTunnels, prevTunnels, desired, lastOp,
                   cmdLog, vxlanIfs, links, linksUp, file, crTunnels, setupRuns,
                   auxVars>>

NextCache == CacheNodeTunnels \/ SandboxRestart \/ Connectivity \/ Run

SpecCache == InitCache /\ [][NextCache]_vars

\* the launcher from the start of its pod to the updates of the watcher
NextLauncher == NextCache \/ UpdateVxlanTunnels

SpecLauncher == InitCache /\ [][NextLauncher]_vars

-----------------------------------------------------------------------------
(* The wait for the Connectivity record in cacheNodeTunnels, one iteration   *)
(* of its loop at a time.  setup.now: seconds since the setup step started;  *)
(* pc: "start", "loop", "fetched" (the record is read), "resolve" (revision  *)
(* A is in resolveTunnelDestinationsToEndpointIPs, at tunnel setup.idx, and  *)
(* with setup.epDeadline set inside resolveServiceEndpointIP), "write",      *)
(* "done".  setup.gap: the shortest time between the starts of two Get       *)
(* requests for the record; setup.got: a Get returned the record; setup.end: *)
(* the return the step took.                                                 *)

\* revision A: "deadline := time.Now().Add(60 * time.Second)"
connectivityDeadline_A == 60
\* revision A: "context.WithTimeout(c.ctx, 5*time.Second)" around each Get
getTimeout_A == 5
tunnelsCRFetchTimeout == 30
tunnelsCRFetchInterval == 1
NoGap == connectivityDeadline_A + tunnelsCRFetchTimeout

fetchDeadline(rv) ==
    IF rv = "A" THEN connectivityDeadline_A ELSE tunnelsCRFetchTimeout

\* the time a Get takes to answer
GetDurations == {0, getTimeout_A}

\* a loop that gives up at once
pastDeadline_atOnce(rv, now, deadline) == TRUE

\* the head of the loop: "time.Now().After(deadline)" in revision A, a done
\* context (deadline reached) in revision B
pastDeadline(rv, now, deadline) ==
    IF rv = "A" THEN now > deadline ELSE now >= deadline

\* whether a Get started at now and answered after d seconds is cut off: by
\* its own timeout in revision A, by the deadline of the loop in revision B
getCutOff(rv, now, d, deadline) ==
    IF rv = "A" THEN d >= getTimeout_A ELSE now + d >= deadline
\* the time at which the Get returns
getReturnsAt(rv, now, d, deadline) ==
    IF rv = "B" /\ now + d >= deadline THEN deadline ELSE now + d

InitSetupWait ==
    /\ rev \in Revs
    /\ nativeMode = TRUE
    /\ phase = "none"
    /\ initialTunnels = <<>>
    /\ VxNew
    /\ pod = "init"
    /\ file \in {NoFile, [exists |-> TRUE, bytes |-> <<>>],
                 [exists |-> TRUE, bytes |-> Marshal(<<>>)]}
    /\ filePrev = file
    /\ crTunnels \in { l \in TunnelLists : Len(l) <= 1 }
    /\ apiCalls = 0
    /\ launcherOp = "none"
    /\ launcherRes = "none"
    /\ apiErr = FALSE
    /\ setupRuns = 0
    /\ resolve = Idle /\ podnet = Idle /\ overrides = Idle /\ CtrlIdle
    /\ proxy = Idle
    /\ setup = [pc |-> "start", now |-> 0, deadline |-> -1, lastGet |-> -1,
                gap |-> NoGap, present |-> FALSE, got |-> FALSE, idx |-> 0,
                epDeadline |-> -1, epDur |-> 0, end |-> "none"]

SetupUnchanged ==
    UNCHANGED <<vxVars, crTunnels, setupRuns, resolve, podnet, overrides, ctrl,
                naming, proxy>>

\* cacheNodeTunnels up to its loop: a file that is there and not empty ends
\* the step, and so does an error of os.MkdirAll
BeginCacheNodeTunnels ==
    /\ setup.pc = "start"
    /\ launcherOp' = "setup"
    /\ filePrev' = file
    /\ \E mkdirOk \in BOOLEAN :
         IF fileAlreadyPresent(file)
         THEN /\ setup' = [setup EXCEPT !.pc = "done", !.end = "present"]
              /\ launcherRes' = "ok"
              /\ pod' = "start"
         ELSE IF ~mkdirOk
         THEN /\ setup' = [setup EXCEPT !.pc = "done", !.end = "mkdir"]
              /\ launcherRes' = "error"
              /\ pod' = pod
         ELSE /\ setup' = [setup EXCEPT !.pc = "loop",
                                        !.deadline = setup.now + fetchDeadline(rev)]
              /\ UNCHANGED <<launcherRes, pod>>
    /\ UNCHANGED <<file, apiCalls, apiErr>>
    /\ SetupUnchanged

\* the loop gives up: the error is returned and nothing is written
WaitTimesOut ==
    /\ setup.pc = "loop"
    /\ pastDeadline(rev, setup.now, setup.deadline)
    /\ setup' = [setup EXCEPT !.pc = "done", !.end = "timeout"]
    /\ launcherRes' = "error"
    /\ apiErr' = TRUE
    /\ UNCHANGED <<pod, file, filePrev, apiCalls, launcherOp>>
    /\ SetupUnchanged

\* one iteration of the loop: a Get of the record, and the sleep that follows
\* a failed one
FetchOnce ==
    /\ setup.pc = "loop"
    /\ ~pastDeadline(rev, setup.now, setup.deadline)
    /\ \E d \in GetDurations, apiOk \in BOOLEAN :
         setup' =
           IF setup.present /\ apiOk /\ ~getCutOff(rev, setup.now, d, setup.deadline)
           THEN [setup EXCEPT !.pc = "fetched", !.now = setup.now + d,
                              !.got = TRUE, !.lastGet = setup.now,
                              !.gap = IF setup.lastGet = -1 \/ setup.now - setup.lastGet >= @
                                      THEN @ ELSE setup.now - setup.lastGet]
           ELSE [setup EXCEPT !.now = getReturnsAt(rev, setup.now, d, setup.deadline)
                                      + tunnelsCRFetchInterval,
                              !.lastGet = setup.now,
                              !.gap = IF setup.lastGet = -1 \/ setup.now - setup.lastGet >= @
                                      THEN @ ELSE setup.now - setup.lastGet]
    /\ apiCalls' = apiCalls + 1
    /\ UNCHANGED <<pod, file, filePrev, launcherOp, launcherRes, apiErr>>
    /\ SetupUnchanged

\* revision A, the record read: resolveTunnelDestinationsToEndpointIPs makes
\* its client and enters its loop, or returns the error of the client
ResolveTunnelDestinations ==
    /\ setup.pc = "fetched"
    /\ rev = "A"
    /\ \E cfgOk \in BOOLEAN :
         IF cfgOk
         THEN /\ setup' = [setup EXCEPT !.pc = "resolve", !.idx = 1]
              /\ UNCHANGED launcherRes
         ELSE /\ setup' = [setup EXCEPT !.pc = "done", !.end = "config"]
              /\ launcherRes' = "error"
    /\ UNCHANGED <<pod, file, filePrev, apiCalls, launcherOp, apiErr>>
    /\ SetupUnchanged

\* the loop over the tunnels: one without destination, or whose destination
\* is an IP literal, is passed over; for another resolveServiceEndpointIP is
\* called and fixes its deadline; after the last the list is written.  The
\* Gets of one lookup answer alike, at once or at their timeout
NextDestination ==
    /\ setup.pc = "resolve"
    /\ setup.epDeadline = -1
    /\ \E d \in {0, endpointGetTimeout} :
         setup' =
           IF setup.idx > Len(crTunnels) THEN [setup EXCEPT !.pc = "write"]
           ELSE IF \/ crTunnels[setup.idx].Destination = ""
                   \/ IsIPLiteral(crTunnels[setup.idx].Destination)
           THEN [setup EXCEPT !.idx = @ + 1]
           ELSE [setup EXCEPT !.epDeadline = setup.now + endpointDeadline,
                              !.epDur = d]
    /\ UNCHANGED <<pod, file, filePrev, apiCalls, launcherOp, launcherRes, apiErr>>
    /\ SetupUnchanged

\* one iteration of the loop of resolveServiceEndpointIP: a Get of the
\* Endpoints, which returns with an address, or the sleep after it
EndpointGetOnce ==
    /\ setup.pc = "resolve"
    /\ setup.epDeadline # -1
    /\ setup.now < setup.epDeadline
    /\ \E epOk \in BOOLEAN :
         setup' =
           IF epOk /\ setup.epDur < endpointGetTimeout
           THEN [setup EXCEPT !.now = @ + setup.epDur, !.idx = @ + 1,
                              !.epDeadline = -1, !.epDur = 0]
           ELSE [setup EXCEPT !.now = @ + setup.epDur + endpointRetryInterval]
    /\ apiCalls' = apiCalls + 1
    /\ UNCHANGED <<pod, file, filePrev, launcherOp, launcherRes, apiErr>>
    /\ SetupUnchanged

\* the loop of resolveServiceEndpointIP is over without an address: the
\* error is returned and nothing is written
EndpointLookupGivesUp ==
    /\ setup.pc = "resolve"
    /\ setup.epDeadline # -1
    /\ setup.now >= setup.epDeadline
    /\ setup' = [setup EXCEPT !.pc = "done", !.end = "endpoints"]
    /\ launcherRes' = "error"
    /\ UNCHANGED <<pod, file, filePrev, apiCalls, launcherOp, apiErr>>
    /\ SetupUnchanged

\* the rest of cacheNodeTunnels: the node's tunnels (in revision A with their
\* destinations resolved) are marshalled and written
WriteCacheFile ==
    /\ \/ setup.pc = "fetched" /\ rev = "B"
       \/ setup.pc = "write"
    /\ \E n \in 0..(4 * Len(crTunnels) + 2), werr \in WriteErrors :
       \E r \in { cacheWrite(file,
                             IF rev = "A"
                             THEN resolveTunnelDestinationsToEndpointIPs(crTunnels)
                             ELSE crTunnels,
                             apiCalls, n, werr) } :
         /\ file' = r.file
         /\ launcherRes' = r.res
         /\ pod' = IF r.res = "ok" THEN "start" ELSE "init"
         /\ setup' = [setup EXCEPT !.pc = "done",
                                   !.end = IF r.res = "ok" THEN "ok" ELSE "write"]
    /\ UNCHANGED <<filePrev, launcherOp, apiErr, apiCalls>>
    /\ SetupUnchanged

\* the controller writes the Connectivity record of the topology
ControllerWritesRecord ==
    /\ setup.pc \in {"start", "loop"}
    /\ ~setup.present
    /\ setup' = [setup EXCEPT !.present = TRUE]
    /\ UNCHANGED <<cacheVars>>
    /\ SetupUnchanged

\* the steps of the setup container
SetupStep ==
    \/ BeginCacheNodeTunnels
    \/ WaitTimesOut
    \/ FetchOnce
    \/ ResolveTunnelDestinations
    \/ NextDestination
    \/ EndpointGetOnce
    \/ EndpointLookupGivesUp
    \/ WriteCacheFile

NextSetupWait ==
    \/ BeginCacheNodeTunnels
    \/ WaitTimesOut
    \/ FetchOnce
    \/ ResolveTunnelDestinations
    \/ NextDestination
    \/ EndpointGetOnce
    \/ EndpointLookupGivesUp
    \/ WriteCacheFile
    \/ ControllerWritesRecord

\* the setup container runs as long as it has a step to take
SpecSetupWait == InitSetupWait /\ [][NextSetupWait]_vars /\ WF_vars(SetupStep)

-----------------------------------------------------------------------------
(* Resolving a tunnel destination: resolveVXLANService                       *)

resolveServiceMaxAttempts == 5

\* the manager and the cache at rest, for the parts of the launcher and of
\* the controller that are modelled on their own
VxIdle ==
    /\ nativeMode = TRUE
    /\ phase = "none"
    /\ initialTunnels = <<>>
    /\ VxNew
    /\ CacheIdle

\* destinations that are not IP literals, as their dot-separated labels
Hosts == { <<"t1-n2-vx", "ns", "svc", "cluster", "local">>, <<"t1-n2-vx">> }

\* what the cluster answers: the Service Get, its ClusterIP, the Endpoints Get
\* and the first endpoint address ("" when there is none)
KubeAnswers ==
    [svcErr : BOOLEAN, clusterIP : {"", "None", "10.96.0.7"},
     epErr : BOOLEAN, epIP : {"", "10.244.1.5"}]

Resolved(ip, err, kubeCalled, lookups) ==
    [ip |-> ip, err |-> err, kubeCalled |-> kubeCalled, lookups |-> lookups]

\* the loop of resolveVXLANService: up to resolveServiceMaxAttempts calls of
\* net.LookupIP, the first errs of which fail; the first that succeeds returns
\* count addresses.  Yields the length of resolvedVxlanRemotes and the calls made
RECURSIVE lookupLoop(_, _, _)
lookupLoop(i, errs, count) ==
    IF i > resolveServiceMaxAttempts THEN [n |-> 0, lookups |-> i - 1]
    ELSE IF i <= errs THEN lookupLoop(i + 1, errs, count)
    ELSE [n |-> count, lookups |-> i]

\* parseServiceFQDN: the first two labels, or the single label and POD_NAMESPACE
parseServiceFQDN(host, podNs) ==
    IF Len(host) >= 2 /\ host[1] # "" /\ host[2] # ""
    THEN [serviceName |-> host[1], namespace |-> host[2]]
    ELSE IF podNs = "" THEN [serviceName |-> "", namespace |-> ""]
    ELSE IF Len(host) = 1 /\ host[1] # ""
    THEN [serviceName |-> host[1], namespace |-> podNs]
    ELSE [serviceName |-> "", namespace |-> ""]

\* resolveVXLANServiceViaKubeAPI, after the name is parsed
viaKubeAPI(svc, kube) ==
    IF svc.serviceName = "" \/ svc.namespace = "" THEN [ip |-> "", err |-> TRUE]
    ELSE IF kube.svcErr THEN [ip |-> "", err |-> TRUE]
    ELSE IF kube.clusterIP # "" /\ kube.clusterIP # "None"
    THEN [ip |-> kube.clusterIP, err |-> FALSE]
    ELSE IF kube.epErr THEN [ip |-> "", err |-> TRUE]
    ELSE IF kube.epIP # "" THEN [ip |-> kube.epIP, err |-> FALSE]
    ELSE [ip |-> "", err |-> TRUE]

resolveVXLANServiceViaKubeAPI(host, podNs, kube) ==
    viaKubeAPI(parseServiceFQDN(host, podNs), kube)

\* a fallback that is never taken
kubeFallback_none(k, lookups) == Resolved("", TRUE, FALSE, lookups)

\* resolveVXLANService, revision A, when DNS gave other than one address
kubeFallback(k, lookups) == Resolved(k.ip, k.err, TRUE, lookups)

\* resolveVXLANService, revision A (vxlan.go:76-120)
resolveAfterLookup_A(l, host, podNs, kube) ==
    IF l.n # 1
    THEN kubeFallback(resolveVXLANServiceViaKubeAPI(host, podNs, kube), l.lookups)
    ELSE Resolved("10.0.0.2", FALSE, FALSE, l.lookups)
resolveVXLANService_A(host, podNs, errs, count, kube) ==
    resolveAfterLookup_A(lookupLoop(1, errs, count), host, podNs, kube)

\* resolveVXLANService, revision B (vxlan.go:558-589): no fallback
resolveAfterLookup_B(l) ==
    IF l.n # 1 THEN Resolved("", TRUE, FALSE, l.lookups)
    ELSE Resolved("10.0.0.2", FALSE, FALSE, l.lookups)
resolveVXLANService_B(host, podNs, errs, count, kube) ==
    resolveAfterLookup_B(lookupLoop(1, errs, count))

InitResolve ==
    /\ proxy = Idle
    /\ setup = Idle
    /\ rev \in Revs
    /\ VxIdle
    /\ podnet = Idle
    /\ overrides = Idle
    /\ CtrlIdle
    /\ \E host \in Hosts, errs \in 0..resolveServiceMaxAttempts, count \in 0..2,
          kube \in KubeAnswers :
         resolve = [pc |-> "call", host |-> host, podNs |-> "ns", errs |-> errs,
                    count |-> count, kube |-> kube]

\* one call of resolveVXLANService for a destination that is not an IP literal
ResolveVXLANService ==
    /\ resolve.pc = "call"
    /\ resolve' =
         [pc |-> "done", host |-> resolve.host, podNs |-> resolve.podNs,
          errs |-> resolve.errs, count |-> resolve.count, kube |-> resolve.kube,
          out |-> IF rev = "A"
                  THEN resolveVXLANService_A(resolve.host, resolve.podNs,
                           resolve.errs, resolve.count, resolve.kube)
                  ELSE resolveVXLANService_B(resolve.host, resolve.podNs,
                           resolve.errs, resolve.count, resolve.kube)]
    /\ UNCHANGED <<vxVars, cacheVars, proxy, setup, podnet, overrides, ctrl, naming>>

NextResolve == ResolveVXLANService

SpecResolve == InitResolve /\ [][NextResolve]_vars

-----------------------------------------------------------------------------
(* The pod-net snapshot and its replay: unnamed/part_006                     *)
(*                                                                           *)
(* podnet holds the kernel's view of eth0 (addrs, routes, up), the snapshot  *)
(* file (hasSnap, snap), the guardian's position (pc: "setup", "guard"       *)
(* between passes, "pass" inside one, "stopped"), the commands the running   *)
(* pass has still to run (todo) with those it has run (log) and its error    *)
(* (err), the launcher's mode (native), the root context (ctx: "live",       *)
(* "cancelled"), whether a pass has failed (failed) and the number of        *)
(* changes the NOS has made (nos).  A pass is a read of the file followed by *)
(* one process per command; the NOS and the cancellation act between them.   *)

Addr(fam, local, len) == [Family |-> fam, Local |-> local, PrefixLen |-> len]
Route(dst, gw, dev, scope, flags, metric) ==
    [Dst |-> dst, Gateway |-> gw, Dev |-> dev, Scope |-> scope, Flags |-> flags,
     Metric |-> metric]

\* what the CNI sets on eth0: a /32 pod address, a link-scope host route to
\* the gateway and the default route through it
AddrV4 == Addr("inet", "10.0.0.5", 32)
AddrV6 == Addr("inet6", "fd00::5", 128)
\* an address the NOS puts on eth0 itself, and the connected route the kernel
\* keeps for it
AddrNos == Addr("inet", "192.168.0.1", 24)
RouteGwHost == Route("10.0.0.1", "", "eth0", "link", <<>>, 0)
RouteDefault == Route("default", "10.0.0.1", "eth0", "", <<>>, 0)
RouteSvc == Route("10.96.0.0/12", "10.0.0.1", "eth0", "", <<>>, 100)
RouteNos == Route("192.168.0.0/24", "", "eth0", "link", <<>>, 0)

CniAddrs == { {AddrV4}, {AddrV4, AddrV6} }
CniRoutes == { {RouteGwHost, RouteDefault}, {RouteGwHost, RouteDefault, RouteSvc} }

\* the kernel's view of eth0 and of the main table, with the commands of the
\* running pass and its error
Net(addrs, routes, up, log, err) ==
    [addrs |-> addrs, routes |-> routes, up |-> up, log |-> log, err |-> err]

IpCmd(op, arg, ok) == [op |-> op, arg |-> arg, ok |-> ok]

\* "if dst == "" { dst = "default" }": a listed route without a destination
\* is stored as the default route
snapshotRoute(r) == IF r.Dst = "" THEN [r EXCEPT !.Dst = "default"] ELSE r

\* readPodNetSnapshotFromKernel(ctx, "eth0"): the addresses and the routes in
\* the order "ip -j" lists them; routes of other devices are left out
readPodNetSnapshotFromKernel(addrList, routeList, ifname) ==
    [Interface |-> ifname,
     Addrs |-> SelectSeq(addrList,
                  LAMBDA a : a.Local # "" /\ a.Family \in {"inet", "inet6"}),
     Routes |-> [i \in DOMAIN SelectSeq(routeList,
                                        LAMBDA r : r.Dev = "" \/ r.Dev = ifname) |->
                   snapshotRoute(SelectSeq(routeList,
                                           LAMBDA r : r.Dev = "" \/ r.Dev = ifname)[i])]]

\* the kernel: an IPv4 address whose prefix is shorter than the address has a
\* connected route in the main table while the link is up
connectedRoutes(addrs) == IF AddrNos \in addrs THEN {RouteNos} ELSE {}
hasInet(addrs) == \E a \in addrs : a.Family = "inet"

\* the kernel adds an address: a new one comes with its connected route
kernelAddrAdd(k, a) ==
    [k EXCEPT !.addrs = @ \cup {a},
              !.routes = IF k.up /\ a \notin k.addrs THEN @ \cup connectedRoutes({a})
                         ELSE @]
\* the kernel deletes an address: its connected route goes with it, and every
\* IPv4 route of the device when no IPv4 address is left on it
kernelAddrDel(k, a) ==
    [k EXCEPT !.addrs = @ \ {a},
              !.routes = IF a.Family = "inet" /\ ~hasInet(k.addrs \ {a}) THEN {}
                         ELSE @ \ connectedRoutes({a})]
\* the kernel deletes one route; a route through a gateway stays when the
\* route to the gateway goes
kernelRouteDel(k, r) == [k EXCEPT !.routes = @ \ {r}]
\* the link goes down: the routes of the device leave the table, and so do
\* its IPv6 addresses, which a link that comes up again does not bring back
kernelLinkDown(k) ==
    [k EXCEPT !.up = FALSE, !.routes = {},
              !.addrs = { a \in @ : a.Family # "inet6" }]
\* the link comes up: the connected routes are back
kernelLinkUp(k) ==
    [k EXCEPT !.up = TRUE,
              !.routes = IF k.up THEN @ ELSE @ \cup connectedRoutes(k.addrs)]

\* cmd.Run() has returned: the command is in the log, its error kept
ran(k, op, arg, ok, errName) ==
    [k EXCEPT !.log = Append(@, IpCmd(op, arg, ok)),
              !.err = IF ok THEN @ ELSE errName]

\* an "ip addr ... dev eth0" that empties the interface before it adds
ipAddrReplace_flush(k, a, ok) ==
    ran(IF ok THEN [k EXCEPT !.addrs = {a}] ELSE k, "addr-replace", a, ok, "addr")

\* "ip addr replace <local>/<len> dev eth0": adds the address, or refreshes it
ipAddrReplace(k, a, ok) ==
    ran(IF ok THEN kernelAddrAdd(k, a) ELSE k, "addr-replace", a, ok, "addr")

\* the kernel takes a route through a gateway only if the gateway is on-link:
\* a route without gateway leads to it, or the route says onlink
gatewayUsable(k, r, onlink) ==
    \/ r.Gateway = ""
    \/ onlink
    \/ \E q \in k.routes : q.Gateway = "" /\ q.Dst = r.Gateway
\* and it takes no route on a device that is down
routeTaken(k, r, onlink) == k.up /\ gatewayUsable(k, r, onlink)

\* "ip route replace": the route takes the place of the one with its
\* destination and metric; ok: the process ran
ipRouteReplace(k, r, onlink, ok) ==
    ran(IF ok /\ routeTaken(k, r, onlink)
        THEN [k EXCEPT !.routes =
                 { q \in @ : ~(q.Dst = r.Dst /\ q.Metric = r.Metric) } \cup {r}]
        ELSE k,
        "route-replace", r, ok /\ routeTaken(k, r, onlink), "route")

\* "ip link set eth0 up"
ipLinkUp(k, ifname, ok) ==
    ran(IF ok THEN kernelLinkUp(k) ELSE k, "link-up", ifname, ok, "link")

\* a command of a pass; besteffort: its error is dropped
IpCommand(op, arg, onlink, besteffort) ==
    [op |-> op, arg |-> arg, onlink |-> onlink, besteffort |-> besteffort]

\* the address loop of applyPodNetSnapshot: its commands, which return the
\* first error
validAddrs_A(addrs) == SelectSeq(addrs, LAMBDA a : ~(a.Local = "" \/ a.PrefixLen = 0))
validAddrs_B(addrs) == SelectSeq(addrs, LAMBDA a : ~(a.Local = "" \/ a.PrefixLen <= 0))
applyAddrs(addrs) ==
    [i \in DOMAIN addrs |-> IpCommand("addr-replace", addrs[i], FALSE, FALSE)]

\* applyRoute of revision A: dev is the snapshot's interface, the scope is kept
routeArgs_A(r, ifname) == Route(r.Dst, r.Gateway, ifname, r.Scope, <<>>, r.Metric)
hasOnlink(r) == \E j \in DOMAIN r.Flags : r.Flags[j] = "onlink"

\* a route loop of revision A; it returns on the first error
applyRoutes_A(routes, ifname) ==
    [i \in DOMAIN routes |->
        IpCommand("route-replace", routeArgs_A(routes[i], ifname),
                  hasOnlink(routes[i]), FALSE)]

noGatewayRoutes(routes) == SelectSeq(routes, LAMBDA r : r.Dst # "" /\ r.Gateway = "")
withGatewayRoutes(routes) == SelectSeq(routes, LAMBDA r : r.Dst # "" /\ r.Gateway # "")

\* the route of revision B's command: dev as recorded, no scope, no onlink
routeArgs_B(r) ==
    Route(r.Dst, r.Gateway, r.Dev, IF r.Gateway = "" THEN "link" ELSE "", <<>>, r.Metric)

\* the route loop of revision B: snapshot order, errors dropped
routesWithDst(routes) == SelectSeq(routes, LAMBDA r : r.Dst # "")
applyRoutes_B(routes) ==
    [i \in DOMAIN routes |->
        IpCommand("route-replace", routeArgs_B(routes[i]), FALSE, TRUE)]

\* applyPodNetSnapshot, revision A (part_006:209-290): the commands it runs
\* while none returns an error
applyPodNetSnapshot_A(snap) ==
    IF snap.Interface = "" THEN <<>>
    ELSE <<IpCommand("link-up", snap.Interface, FALSE, FALSE)>>
           \o applyAddrs(validAddrs_A(snap.Addrs))
           \o applyRoutes_A(noGatewayRoutes(snap.Routes), snap.Interface)
           \o applyRoutes_A(withGatewayRoutes(snap.Routes), snap.Interface)

\* applyPodNetSnapshot, revision B (part_006:523-588)
applyPodNetSnapshot_B(snap) ==
    IF snap.Interface = "" THEN <<>>
    ELSE <<IpCommand("link-up", snap.Interface, FALSE, FALSE)>>
           \o applyAddrs(validAddrs_B(snap.Addrs))
           \o applyRoutes_B(routesWithDst(snap.Routes))

applyPodNetSnapshot(rv, snap) ==
    IF rv = "A" THEN applyPodNetSnapshot_A(snap) ELSE applyPodNetSnapshot_B(snap)

\* exec.CommandContext(ctx, "ip", ...).Run() of one command of the pass
runIpCommand(k, c, ok) ==
    IF c.op = "link-up" THEN ipLinkUp(k, c.arg, ok)
    ELSE IF c.op = "addr-replace" THEN ipAddrReplace(k, c.arg, ok)
    ELSE ipRouteReplace(k, c.arg, c.onlink, ok)

\* a process is started only while the context is live
CommandOutcomes(p) == IF p.ctx = "live" THEN BOOLEAN ELSE {FALSE}

\* the pass after the command c left the kernel as k: an error that is not
\* dropped ends the pass
afterCommand(p, c, k) ==
    [p EXCEPT !.addrs = k.addrs, !.routes = k.routes, !.up = k.up, !.log = k.log,
              !.err = IF c.besteffort THEN "none" ELSE k.err,
              !.prevAddrs = p.addrs,
              !.todo = IF k.err # "none" /\ ~c.besteffort THEN <<>> ELSE Tail(@)]

\* a pass that ends the guardian when it fails
guardianAfter_stopOnError(p) ==
    IF p.err # "none" THEN [p EXCEPT !.pc = "stopped"] ELSE p

\* the guardian after a pass: the loop goes on, whatever the pass returned
guardianAfter(p) == p

\* ensurePodNetFromSnapshot returns
passEnded(p) ==
    guardianAfter([p EXCEPT !.pc = "guard", !.last = "replay", !.todo = <<>>,
                            !.failed = @ \/ p.err # "none"])

\* ensurePodNetFromSnapshot has read and parsed the file
beginPass(p, rv) ==
    [p EXCEPT !.pc = "pass", !.last = "read", !.log = <<>>, !.err = "none",
              !.prevAddrs = p.addrs, !.todo = applyPodNetSnapshot(rv, p.snap)]

\* the pass that finds no snapshot file: it returns before any command
passWithoutFile(p) ==
    [p EXCEPT !.last = "replay", !.log = <<>>, !.err = "nofile",
              !.prevAddrs = p.addrs, !.failed = TRUE]

KernelOf(p) == Net(p.addrs, p.routes, p.up, p.log, p.err)
\* the NOS has changed eth0 and left the kernel as k
nosChanged(p, k) ==
    [p EXCEPT !.addrs = k.addrs, !.routes = k.routes, !.up = k.up,
              !.prevAddrs = k.addrs, !.last = "nos"]
\* the same, with the change counted
withKernel(p, k) == [nosChanged(p, k) EXCEPT !.nos = @ + 1]

InitPodNet ==
    /\ proxy = Idle
    /\ setup = Idle
    /\ rev \in Revs
    /\ VxIdle
    /\ resolve = Idle
    /\ overrides = Idle
    /\ CtrlIdle
    /\ \E a \in CniAddrs, r \in CniRoutes :
         podnet = [pc |-> "setup", last |-> "none", snap |-> <<>>, addrs |-> a,
                   routes |-> r, up |-> TRUE, log |-> <<>>, err |-> "none",
                   prevAddrs |-> a, todo |-> <<>>, native |-> TRUE,
                   hasSnap |-> FALSE, ctx |-> "live", failed |-> FALSE, nos |-> 0]

\* the setup step: capturePodNetSnapshot reads eth0 and writes the snapshot
CapturePodNetSnapshot ==
    /\ podnet.pc = "setup"
    /\ \E al \in Perms(podnet.addrs), rl \in Perms(podnet.routes) :
         podnet' = [podnet EXCEPT
                      !.pc = "guard",
                      !.last = "capture",
                      !.hasSnap = TRUE,
                      !.snap = readPodNetSnapshotFromKernel(al, rl, "eth0")]
    /\ UNCHANGED <<vxVars, cacheVars, proxy, setup, resolve, overrides, ctrl, naming>>

MaxNetnsChanges == 2

\* the NOS container, which shares the pod's network namespace, changes eth0
\* between two commands of the launcher: it removes an address or a route,
\* adds an address of its own, or sets the link down
NosMutatesNetns ==
    /\ podnet.pc \in {"guard", "pass"}
    /\ podnet.nos < MaxNetnsChanges
    /\ \/ \E a \in podnet.addrs :
            podnet' = withKernel(podnet, kernelAddrDel(KernelOf(podnet), a))
       \/ \E r \in podnet.routes :
            podnet' = withKernel(podnet, kernelRouteDel(KernelOf(podnet), r))
       \/ /\ AddrNos \notin podnet.addrs
          /\ podnet' = withKernel(podnet, kernelAddrAdd(KernelOf(podnet), AddrNos))
       \/ /\ podnet.up
          /\ podnet' = withKernel(podnet, kernelLinkDown(KernelOf(podnet)))
    /\ UNCHANGED <<vxVars, cacheVars, proxy, setup, resolve, overrides, ctrl, naming>>

\* a tick of the guardian: ensurePodNetFromSnapshot reads the snapshot file
\* and has the commands of applyPodNetSnapshot to run
EnsurePodNetFromSnapshot ==
    /\ podnet.pc = "guard"
    /\ \E p \in { beginPass(podnet, rev) } :
         podnet' = IF p.todo = <<>> THEN passEnded(p) ELSE p
    /\ UNCHANGED <<vxVars, cacheVars, proxy, setup, resolve, overrides, ctrl, naming>>

\* the next command of the pass runs; the pass returns with the first error
\* that is not dropped, or after its last command
RunIpCommand ==
    /\ podnet.pc = "pass"
    /\ \E ok \in CommandOutcomes(podnet) :
       \E p \in { afterCommand(podnet, Head(podnet.todo), k) :
                    k \in { runIpCommand(KernelOf(podnet), Head(podnet.todo), ok) } } :
         podnet' = IF p.todo = <<>> THEN passEnded(p) ELSE [p EXCEPT !.last = "cmd"]
    /\ UNCHANGED <<vxVars, cacheVars, proxy, setup, resolve, overrides, ctrl, naming>>

\* the root context is cancelled (pod shutdown)
CancelContext ==
    /\ podnet.pc \in {"guard", "pass"}
    /\ podnet.ctx = "live"
    /\ podnet' = [podnet EXCEPT !.ctx = "cancelled", !.last = "cancel"]
    /\ UNCHANGED <<vxVars, cacheVars, proxy, setup, resolve, overrides, ctrl, naming>>

NextPodNet ==
    \/ CapturePodNetSnapshot
    \/ NosMutatesNetns
    \/ EnsurePodNetFromSnapshot
    \/ RunIpCommand
    \/ CancelContext

SpecPodNet == InitPodNet /\ [][NextPodNet]_vars

-----------------------------------------------------------------------------
(* The guardian loop: startPodNetGuardian, unnamed/part_006                  *)

InitGuardian ==
    /\ proxy = Idle
    /\ setup = Idle
    /\ rev \in Revs
    /\ VxIdle
    /\ resolve = Idle
    /\ overrides = Idle
    /\ CtrlIdle
    /\ \E a \in CniAddrs, r \in CniRoutes, n \in BOOLEAN :
         podnet = [pc |-> "setup", last |-> "none", snap |-> <<>>, addrs |-> a,
                   routes |-> r, up |-> TRUE, log |-> <<>>, err |-> "none",
                   prevAddrs |-> a, todo |-> <<>>, native |-> n,
                   hasSnap |-> FALSE, ctx |-> "live", failed |-> FALSE, nos |-> 0]

\* the setup step in native mode: the snapshot file is written
CaptureSnapshotFile ==
    /\ podnet.native
    /\ \E al \in Perms(podnet.addrs), rl \in Perms(podnet.routes) :
         podnet' = [podnet EXCEPT
                      !.pc = "guard",
                      !.last = "capture",
                      !.hasSnap = TRUE,
                      !.snap = readPodNetSnapshotFromKernel(al, rl, "eth0")]
    /\ podnet.pc = "setup"
    /\ UNCHANGED <<vxVars, cacheVars, proxy, setup, resolve, overrides, ctrl, naming>>

\* the setup step outside native mode, or with a failing "ip -j": it returns
\* before the write and no snapshot file exists
CaptureWritesNothing ==
    /\ podnet.pc = "setup"
    /\ podnet' = [podnet EXCEPT !.pc = "guard", !.last = "capture"]
    /\ UNCHANGED <<vxVars, cacheVars, proxy, setup, resolve, overrides, ctrl, naming>>

\* startPodNetGuardian: outside native mode it returns at once; in native
\* mode it calls ensurePodNetFromSnapshot at start and on every tick, which
\* returns at once without a snapshot file and else has the commands of
\* applyPodNetSnapshot to run
GuardianPass ==
    /\ podnet.pc = "guard"
    /\ podnet' =
         IF ~podnet.native THEN [podnet EXCEPT !.pc = "stopped"]
         ELSE IF ~podnet.hasSnap
         THEN CHOOSE res \in { guardianAfter(p) :
                                 p \in { passWithoutFile(podnet) } } : TRUE
         ELSE CHOOSE res \in
                { IF p.todo = <<>> THEN passEnded(p) ELSE p :
                    p \in { beginPass(podnet, rev) } } : TRUE
    /\ UNCHANGED <<vxVars, cacheVars, proxy, setup, resolve, overrides, ctrl, naming>>

\* the NOS removes an address or a route of eth0, or sets the link down,
\* between any two commands and as often as it likes
NosRemoves ==
    /\ podnet.pc \in {"guard", "pass"}
    /\ \/ \E a \in podnet.addrs :
            podnet' = nosChanged(podnet, kernelAddrDel(KernelOf(podnet), a))
       \/ \E r \in podnet.routes :
            podnet' = nosChanged(podnet, kernelRouteDel(KernelOf(podnet), r))
       \/ /\ podnet.up
          /\ podnet' = nosChanged(podnet, kernelLinkDown(KernelOf(podnet)))
    /\ UNCHANGED <<vxVars, cacheVars, proxy, setup, resolve, overrides, ctrl, naming>>

\* the select of the loop takes ctx.Done(): the guardian returns
GuardianReturns ==
    /\ podnet.pc = "guard"
    /\ podnet.ctx = "cancelled"
    /\ podnet' = [podnet EXCEPT !.pc = "stopped", !.last = "return"]
    /\ UNCHANGED <<vxVars, cacheVars, proxy, setup, resolve, overrides, ctrl, naming>>

NextGuardian ==
    \/ CaptureSnapshotFile
    \/ CaptureWritesNothing
    \/ GuardianPass
    \/ RunIpCommand
    \/ NosRemoves
    \/ CancelContext
    \/ GuardianReturns

\* the ticker fires as long as the guardian runs, a command that was started
\* returns, and a cancelled context is seen.  Whether a command succeeds is
\* the environment's to decide: nothing is assumed of it
SpecGuardian ==
    /\ InitGuardian
    /\ [][NextGuardian]_vars
    /\ WF_vars(GuardianPass)
    /\ WF_vars(RunIpCommand)
    /\ WF_vars(GuardianReturns)

-----------------------------------------------------------------------------
(* Native-mode overrides: controllers/topology/nativemode                    *)
(*                                                                           *)
(* An env name is a sequence of tokens, each a white-space byte or a run of  *)
(* other bytes, so that strings.TrimSpace acts on it.  A container image is  *)
(* the sequence of its bytes.  A bind and a link endpoint are held split at  *)
(* their ":".                                                                *)

\* the env names of the model in the byte order strings.Compare gives them
EnvNamesInByteOrder ==
    << <<" ">>, <<" ", "A">>, <<" ", "CEOS">>, <<" ", "CLAB_MGMT_VRF">>,
       <<" ", "INTFTYPE">>,
       <<"A">>, <<"B">>, <<"CEOS">>, <<"CLAB_INTFS">>, <<"CLAB_MGMT_PASSTHROUGH">>,
       <<"CLAB_MGMT_VRF">>, <<"EOS_PLATFORM">>, <<"ETBA">>, <<"INTFTYPE">>,
       <<"IOL_PID">>, <<"MAPETH0">>, <<"MGMT_INTF">>,
       <<"SKIP_ZEROTOUCH_BARRIER_IN_SYSDBINIT">>, <<"SKYFORGE_IOL_LINK_IFACES">>,
       <<"SKYFORGE_IOL_NVRAM">>, <<"SKYFORGE_NODE_NAME">>, <<"container">> >>
NameRank(n) == CHOOSE i \in DOMAIN EnvNamesInByteOrder : EnvNamesInByteOrder[i] = n

\* strings.Compare(a, b) < 0 on env names
NameLess(a, b) == NameRank(a) < NameRank(b)

\* an env entry; names and values are strings written as sequences of tokens,
\* white space being a token of its own
EnvVar(name, value) == [Name |-> name, Value |-> value]

\* slices.SortFunc on at most 12 elements is an insertion sort: each element
\* moves left past the elements that compare greater
RECURSIVE insertLeft(_, _)
insertLeft(env, j) ==
    IF j > 1 /\ NameLess(env[j].Name, env[j - 1].Name)
    THEN insertLeft([env EXCEPT ![j] = env[j - 1], ![j - 1] = env[j]], j - 1)
    ELSE env
RECURSIVE insertionSort(_, _)
insertionSort(env, i) ==
    IF i > Len(env) THEN env ELSE insertionSort(insertLeft(env, i), i + 1)

\* slices.SortFunc(in.NOS.Env, by Name)
sortEnvByName(env) == insertionSort(env, 2)

\* a volume name and a mount path are sequences of tokens, so that
\* strings.TrimSpace acts on them.  The name EnforceDNSLabelConvention and
\* SafeConcatNameKubernetes make of a ConfigMap's name and a path in it is
\* "<name>-<path>"
fileVolumeName(f) == f.ConfigMapName \o <<"-">> \o f.ConfigMapPath
VrnetlabStartupConfigMount == <<"/", "config", "/", "startup-config.cfg">>

\* a k8scorev1.SecurityContext: the pointer fields are "nil" when not set
SecurityContext(privileged, runAsUser, allowPrivilegeEscalation, capabilities) ==
    [Privileged |-> privileged, RunAsUser |-> runAsUser,
     AllowPrivilegeEscalation |-> allowPrivilegeEscalation,
     Capabilities |-> capabilities]

\* a container that was given no security context
NoSecurityContext == SecurityContext("nil", "nil", "nil", {})

\* the capabilities added to every container when the launcher is not privileged
launcherCapabilities ==
    { "CHOWN", "DAC_OVERRIDE", "FSETID", "FOWNER", "MKNOD", "NET_RAW", "SETGID",
      "SETUID", "SETFCAP", "SETPCAP", "NET_BIND_SERVICE", "SYS_CHROOT", "KILL",
      "AUDIT_WRITE", "NET_ADMIN", "SYS_ADMIN", "SYS_RESOURCE", "LINUX_IMMUTABLE",
      "SYS_BOOT", "SYS_TIME", "SYS_MODULE", "SYS_RAWIO", "SYS_PTRACE", "SYS_NICE",
      "IPC_LOCK" }

\* the context applyVrnetlabQemuNative gives the NOS container
vrnetlabSecurityContext == SecurityContext("true", "0", "true", {})

\* the NOS container and the pod volumes the overrides work on
Dep(env, args, command, mounts, volumes, sec) ==
    [Env |-> env, Args |-> args, Command |-> command, Mounts |-> mounts,
     Volumes |-> volumes, Sec |-> sec]

\* the NOS container as renderDeploymentContainer makes it (deployment.go:850)
FreshDep ==
    Dep(<<>>, <<>>, <<>>,
        <<[Name |-> <<"docker">>, ReadOnly |-> FALSE,
           MountPath |-> <<"/", "clabernetes">>, SubPath |-> <<>>]>>,
        <<>>, NoSecurityContext)

\* "<topology>-config"
configVolumeName(owningTopologyName) == owningTopologyName \o <<"-config">>

\* renderDeploymentVolumes, with the image pull-through mode "never" (no CRI
\* socket): the volumes of the pod. One volume is appended for every entry of
\* FilesFromConfigMap
secretVolumes(secrets) ==
    IF secrets
    THEN <<[Name |-> <<"docker-daemon-config">>, Source |-> <<"secret", "daemon">>],
           [Name |-> <<"docker-config">>, Source |-> <<"secret", "config">>]>>
    ELSE <<>>
renderDeploymentVolumes(in, secrets) ==
    <<[Name |-> configVolumeName(in.Topology), Source |-> <<"configMap", in.Topology>>],
      [Name |-> <<"docker">>, Source |-> <<"emptyDir", "">>]>>
      \o secretVolumes(secrets)
      \o [i \in DOMAIN in.Files |->
            [Name |-> fileVolumeName(in.Files[i]),
             Source |-> <<"configMap", in.Files[i].ConfigMapName>>]]

\* Render: the NOS container as renderDeploymentContainer makes it, next to
\* the volumes renderDeploymentVolumes has given the pod before
podDep(in, secrets) == [FreshDep EXCEPT !.Volumes = renderDeploymentVolumes(in, secrets)]

\* applyEnvMap: one entry is appended for each key of NodeDef.Env, in the
\* order the map iteration gives the keys
RECURSIVE applyEnvMapFrom(_, _, _, _)
applyEnvMapFrom(d, envMap, order, i) ==
    IF i > Len(order) THEN d
    ELSE applyEnvMapFrom(
             IF TrimSpace(order[i]) = <<>> THEN d
             ELSE [d EXCEPT !.Env = Append(@, EnvVar(TrimSpace(order[i]),
                                                    envMap[order[i]]))],
             envMap, order, i + 1)

applyEnvMap(d, envMap, order) == applyEnvMapFrom(d, envMap, order, 1)

\* strings.Contains
Contains(s, substr) ==
    \E i \in 0..(Len(s) - Len(substr)) : SubSeq(s, i + 1, i + Len(substr)) = substr

\* strings.Contains(strings.ToLower(strings.TrimSpace(image)), "/" + name + "/")
imageHasDir(image, name) == Contains(ToLower(TrimSpace(image)), <<"/">> \o name \o <<"/">>)
\* strings.Contains(strings.ToLower(strings.TrimSpace(image)), name)
imageHas(image, name) == Contains(ToLower(TrimSpace(image)), name)

Vrnetlab == <<"v","r","n","e","t","l","a","b">>
Python == <<"p","y","t","h","o","n">>
Alpine == <<"a","l","p","i","n","e">>

\* container images, as the bytes of their names
ImageAlpine == <<"a","l","p","i","n","e">>
ImageCeos == <<"c","e","o","s">>
ImagePlain == <<"i","m","g">>
ImageBusybox == <<"b","u","s","y","b","o","x">>
ImageVrVmx ==
    <<"g","h","c","r",".","i","o","/","v","r","n","e","t","l","a","b","/","v","r","-","v","m",
      "x">>
ImageCiscoVios ==
    <<"g","h","c","r",".","i","o","/","v","r","n","e","t","l","a","b","/","c","i","s","c","o",
      "_","v","i","o","s">>
ImageSrlinux ==
    <<"g","h","c","r",".","i","o","/","n","o","k","i","a","/","s","r","l","i","n","u","x">>
ImageCiscoIol ==
    <<"g","h","c","r",".","i","o","/","v","r","n","e","t","l","a","b","/","c","i","s","c","o",
      "_","i","o","l">>
ImageIosv == <<"r","e","g","i","s","t","r","y","/","i","o","s","v">>
ImageVrnetlabSrl ==
    <<"g","h","c","r",".","i","o","/","v","r","n","e","t","l","a","b","/","s","r","l">>
ImageCiscoIol17 ==
    <<"g","h","c","r",".","i","o","/","v","r","n","e","t","l","a","b","/","c","i","s","c","o",
      "_","i","o","l",":","1","7">>
ImageVrCsr17 ==
    <<"g","h","c","r",".","i","o","/","v","r","n","e","t","l","a","b","/","v","r","-","c","s",
      "r",":","1","7">>
ImageCiscoAsav9 ==
    <<"g","h","c","r",".","i","o","/","v","r","n","e","t","l","a","b","/","c","i","s","c","o",
      "_","a","s","a","v",":","9">>
ImageVrVmxUpperCase ==
    <<"g","h","c","r",".","i","o","/","V","R","N","E","T","L","A","B","/","v","r","-","v","m",
      "x">>
ImageAlpineTools ==
    <<"r","e","g","i","s","t","r","y","/","A","l","p","i","n","e","-","t","o","o","l","s">>
ImageCiscoIolL2 ==
    <<"g","h","c","r",".","i","o","/","v","r","n","e","t","l","a","b","/","C","i","s","c","o",
      "_","I","O","L","-","l","2",":","1","7">>
ImageCiscoAsavx ==
    <<"g","h","c","r",".","i","o","/","v","r","n","e","t","l","a","b","/","c","i","s","c","o",
      "_","a","s","a","v","x",":","9">>

\* node kinds, as the bytes of their names
KindLinux == <<"l","i","n","u","x">>
KindCeos == <<"c","e","o","s">>
KindEos == <<"e","o","s">>
KindCiscoIol == <<"c","i","s","c","o","_","i","o","l">>
KindCiscoIoll2 == <<"c","i","s","c","o","_","i","o","l","l","2">>
KindCiscoVios == <<"c","i","s","c","o","_","v","i","o","s">>
KindCiscoViosl2 == <<"c","i","s","c","o","_","v","i","o","s","l","2">>
KindVrVmx == <<"v","r","-","v","m","x">>
KindSrl == <<"s","r","l">>

\* strings.EqualFold on kind names
EqualFold(a, b) == ToLower(a) = ToLower(b)

\* applyLinux
linuxCmd(in) ==
    IF TrimSpace(in.Cmd) # <<>> THEN StringOf(TrimSpace(in.Cmd))
    ELSE IF imageHas(in.NodeImage, Python) \/ imageHas(in.NodeImage, Alpine)
    THEN "sleep infinity" ELSE ""
applyLinux(d, in) ==
    IF ~EqualFold(in.Kind, KindLinux) \/ linuxCmd(in) = "" THEN d
    ELSE [d EXCEPT !.Command = <<"sh", "-c", linuxCmd(in)>>]

\* collectExistingMountsAndVolumes: the trimmed mount paths of the NOS
\* container, and the names of the pod's volumes
MountPaths(d) == { TrimSpace(d.Mounts[i].MountPath) : i \in DOMAIN d.Mounts }
VolumeNames(d) == { d.Volumes[i].Name : i \in DOMAIN d.Volumes }

\* the volume name of bind idx: "bind-<idx>", or "bind-<idx>-<k>" for the
\* first k >= 2 that is free
RECURSIVE bindVolName(_, _, _)
bindVolName(names, idx, k) ==
    IF k = 1
    THEN IF <<"bind-">> \o itoaBytes(idx) \in names THEN bindVolName(names, idx, 2)
         ELSE <<"bind-">> \o itoaBytes(idx)
    ELSE IF <<"bind-">> \o itoaBytes(idx) \o <<"-">> \o itoaBytes(k) \in names
    THEN bindVolName(names, idx, k + 1)
    ELSE <<"bind-">> \o itoaBytes(idx) \o <<"-">> \o itoaBytes(k)

addBind(d, b, idx) ==
    IF b.host = "" \/ b.container = <<>> \/ ~b.absolute \/ b.container \in MountPaths(d)
    THEN d
    ELSE [d EXCEPT
            !.Volumes = Append(@, [Name |-> bindVolName(VolumeNames(d), idx, 1),
                                   Source |-> <<"hostPath", b.host>>]),
            !.Mounts = Append(@, [Name |-> bindVolName(VolumeNames(d), idx, 1),
                                  ReadOnly |-> b.ro, MountPath |-> b.container,
                                  SubPath |-> <<>>])]

\* applyBindMounts
RECURSIVE applyBindMountsFrom(_, _, _)
applyBindMountsFrom(d, binds, i) ==
    IF i > Len(binds) THEN d
    ELSE applyBindMountsFrom(addBind(d, binds[i], i - 1), binds, i + 1)
applyBindMounts(d, in) == applyBindMountsFrom(d, in.Binds, 1)

\* addEmptyDir of ensureSystemdTmpfsMounts
addEmptyDir(d, volName, mountPath) ==
    IF mountPath \in MountPaths(d) THEN d
    ELSE [d EXCEPT
            !.Volumes = IF volName \in VolumeNames(d) THEN @
                        ELSE Append(@, [Name |-> volName,
                                        Source |-> <<"emptyDir", "Memory">>]),
            !.Mounts = Append(@, [Name |-> volName, ReadOnly |-> FALSE,
                                  MountPath |-> mountPath, SubPath |-> <<>>])]

ensureSystemdTmpfsMounts(d) ==
    addEmptyDir(addEmptyDir(addEmptyDir(d, <<"systemd-run">>, <<"/", "run">>),
                            <<"systemd-runlock">>, <<"/", "run", "/", "lock">>),
                <<"systemd-tmp">>, <<"/", "tmp">>)

\* the first file of FilesFromConfigMap whose FilePath is the startup-config,
\* mounted read-only at mountPath unless something is mounted there
matchingFiles(in) ==
    SelectSeq(in.Files, LAMBDA f :
        TrimSpace(f.ConfigMapName) # <<>> /\ TrimSpace(f.ConfigMapPath) # <<>>
          /\ TrimSpace(f.FilePath) = TrimSpace(in.StartupConfig))
\* the mount appended whatever is mounted at mountPath
mountStartupConfig_always(d, in, mountPath) ==
    IF TrimSpace(in.StartupConfig) = <<>> \/ matchingFiles(in) = <<>>
    THEN d
    ELSE [d EXCEPT !.Mounts = Append(@,
             [Name |-> fileVolumeName(Head(matchingFiles(in))),
              ReadOnly |-> TRUE, MountPath |-> mountPath,
              SubPath |-> Head(matchingFiles(in)).ConfigMapPath])]
mountStartupConfig(d, in, mountPath) ==
    IF TrimSpace(in.StartupConfig) = <<>> \/ mountPath \in MountPaths(d) \/ matchingFiles(in) = <<>>
    THEN d
    ELSE [d EXCEPT !.Mounts = Append(@,
             [Name |-> fileVolumeName(Head(matchingFiles(in))),
              ReadOnly |-> TRUE, MountPath |-> mountPath,
              SubPath |-> Head(matchingFiles(in)).ConfigMapPath])]

\* upsertEnv of applyCEOSEnv: the first entry whose Name is the key
upsertEnvExact(env, key, value) ==
    IF \E i \in DOMAIN env : env[i].Name = key
    THEN [i \in DOMAIN env |->
            IF env[i].Name = key /\ \A j \in 1..(i - 1) : env[j].Name # key
            THEN EnvVar(env[i].Name, value) ELSE env[i]]
    ELSE Append(env, EnvVar(key, value))

\* upsertEnv of applyVrnetlabQemuNative and applyJuniperVMX: the first entry
\* whose trimmed Name is the key
upsertEnvTrimmed(env, key, value) ==
    IF \E i \in DOMAIN env : TrimSpace(env[i].Name) = key
    THEN [i \in DOMAIN env |->
            IF TrimSpace(env[i].Name) = key
               /\ \A j \in 1..(i - 1) : TrimSpace(env[j].Name) # key
            THEN EnvVar(env[i].Name, value) ELSE env[i]]
    ELSE Append(env, EnvVar(key, value))

\* buildExistingEnv: trimmed name -> value, a later entry of a name wins
existingEnvValue(env, name) ==
    IF \E i \in DOMAIN env : TrimSpace(env[i].Name) = name
    THEN env[CHOOSE i \in DOMAIN env :
                /\ TrimSpace(env[i].Name) = name
                /\ \A j \in (i + 1)..Len(env) : TrimSpace(env[j].Name) # name].Value
    ELSE <<>>

\* the INTFTYPE applyCEOSEnv settles on: the trimmed value, "eth" when blank
ceosIntfType(env) ==
    IF TrimSpace(existingEnvValue(env, <<"INTFTYPE">>)) = <<>> THEN <<"eth">>
    ELSE TrimSpace(existingEnvValue(env, <<"INTFTYPE">>))

\* ceosEnv, as the list of its entries in the order of the literal
ceosEnv(intfType) ==
    << EnvVar(<<"CEOS">>, <<"1">>), EnvVar(<<"EOS_PLATFORM">>, <<"ceoslab">>),
       EnvVar(<<"container">>, <<"docker">>), EnvVar(<<"ETBA">>, <<"1">>),
       EnvVar(<<"SKIP_ZEROTOUCH_BARRIER_IN_SYSDBINIT">>, <<"1">>),
       EnvVar(<<"MAPETH0">>, <<"1">>), EnvVar(<<"MGMT_INTF">>, <<"eth0">>),
       EnvVar(<<"INTFTYPE">>, intfType) >>

Reverse(s) == [i \in DOMAIN s |-> s[Len(s) + 1 - i]]

\* the orders the iteration over ceosEnv is taken in
CeosOrders == {"literal", "reverse"}
ceosEntries(intfType, order) ==
    IF order = "literal" THEN ceosEnv(intfType) ELSE Reverse(ceosEnv(intfType))

RECURSIVE upsertAll(_, _, _)
upsertAll(env, entries, i) ==
    IF i > Len(entries) THEN env
    ELSE upsertAll(upsertEnvExact(env, entries[i].Name, entries[i].Value),
                   entries, i + 1)

dropMgmtVrf(env) == SelectSeq(env, LAMBDA e : TrimSpace(e.Name) # <<"CLAB_MGMT_VRF">>)

\* applyCEOSEnv
applyCEOSEnv(env, intfType, order) ==
    sortEnvByName(upsertAll(dropMgmtVrf(env), ceosEntries(intfType, order), 1))

\* setCEOSInitCommand: the setenv keys are sorted, and after the upserts each
\* of them has the value of ceosEnv
setCEOSInitCommand(intfType) ==
    <<"bash", "-c", <<"exec /sbin/init">> \o sortEnvByName(ceosEnv(intfType))>>

\* applyCEOS
ceosEnvAndCommand(d, order) ==
    [d EXCEPT !.Env = applyCEOSEnv(d.Env, ceosIntfType(d.Env), order),
              !.Command = setCEOSInitCommand(ceosIntfType(d.Env))]
applyCEOS(d, in, order) ==
    ceosEnvAndCommand(
        mountStartupConfig(ensureSystemdTmpfsMounts(d), in, <<"/", "mnt", "/", "flash", "/", "startup-config">>),
        order)

\* applyCiscoVIOS
applyCiscoVIOS(d, in) == mountStartupConfig(d, in, VrnetlabStartupConfigMount)

\* slices.Contains(args, flag), then append
appendArgUnless(args, flags, new) ==
    IF \E i \in DOMAIN args : args[i] \in flags THEN args ELSE args \o new

vmxArgs(args, nodeName) ==
    appendArgUnless(
        appendArgUnless(
            appendArgUnless(
                IF TrimSpace(nodeName) = <<>> THEN args
                ELSE appendArgUnless(args, {"--hostname"},
                                     <<"--hostname", StringOf(TrimSpace(nodeName))>>),
                {"--username"}, <<"--username", "admin">>),
            {"--password"}, <<"--password", "admin@123">>),
        {"--connection-mode", "--connectionMode"}, <<"--connection-mode", "tc">>)

\* applyJuniperVMX (linux.go:35)
applyJuniperVMX_A(d, in) ==
    [d EXCEPT !.Env = upsertEnvTrimmed(@, <<"CLAB_MGMT_PASSTHROUGH">>, <<"false">>),
              !.Args = vmxArgs(@, in.NodeName)]

\* applyJuniperVMX (linux.go:95)
applyJuniperVMX_B(d, in) ==
    [d EXCEPT !.Env = upsertEnvTrimmed(@, <<"CLAB_MGMT_PASSTHROUGH">>, <<"false">>)]

\* the name of the owning topology
OwningTopologyName == <<"l","a","b">>

\* the seed of the IOL PID: "<topology>:<node>", both trimmed
iolSeed(in) == TrimSpace(in.Topology) \o <<":">> \o TrimSpace(in.NodeName)

\* FNV-1a on 32 bits, a word being <<high 16 bits, low 16 bits>>: the offset
\* basis 2166136261, and one step h = (h xor b) * 16777619, the prime being
\* 2^24 + 403
fnv32Offset == <<33052, 40389>>
fnv32Mul(h) ==
    <<((h[1] * 403) + ((h[2] * 403) \div 65536) + ((h[2] % 256) * 256)) % 65536,
      (h[2] * 403) % 65536>>
RECURSIVE fnv32(_, _)
fnv32(h, bytes) ==
    IF bytes = <<>> THEN h
    ELSE CHOOSE r \in { fnv32(n, Tail(bytes)) :
                         n \in { fnv32Mul(WXor(h, <<0, Head(bytes)>>)) } } : TRUE

\* computeIOLPIDAndNVRAM: int((h >> 16) % 1023) + 1, and "nvram_%05d" of it
iolPIDMod == 1023
\* the PID taken from the low half of the hash
computeIOLPID_lowHalf(in) == (fnv32(fnv32Offset, Bytes(iolSeed(in)))[2] % iolPIDMod) + 1
computeIOLPID(in) == (fnv32(fnv32Offset, Bytes(iolSeed(in)))[1] % iolPIDMod) + 1
RECURSIVE padZeros(_, _)
padZeros(digits, width) ==
    IF Len(digits) >= width THEN digits ELSE padZeros(<<"0">> \o digits, width)
nvramName(pid) == <<"n","v","r","a","m","_">> \o padZeros(itoaBytes(pid), 5)

\* ensureIOLRuntimeVolume
ensureIOLRuntimeVolume(d) ==
    [d EXCEPT
       !.Volumes = IF <<"vrnetlab-runtime">> \in VolumeNames(d) THEN @
                   ELSE Append(@, [Name |-> <<"vrnetlab-runtime">>,
                                   Source |-> <<"emptyDir", "">>]),
       !.Mounts = IF <<"/", "vrnetlab">> \in MountPaths(d) THEN @
                  ELSE Append(@, [Name |-> <<"vrnetlab-runtime">>, ReadOnly |-> FALSE,
                                  MountPath |-> <<"/", "vrnetlab">>, SubPath |-> <<>>])]

\* mountNetlabInitialConfig: the first file whose ConfigMapPath is "initial"
initialFiles(in) ==
    SelectSeq(in.Files, LAMBDA f :
        TrimSpace(f.ConfigMapName) # <<>> /\ TrimSpace(f.ConfigMapPath) = <<"initial">>)
mountNetlabInitialConfig(d, in) ==
    IF <<"/", "netlab", "/", "initial.cfg">> \in MountPaths(d) \/ initialFiles(in) = <<>> THEN d
    ELSE [d EXCEPT !.Mounts = Append(@,
             [Name |-> fileVolumeName(Head(initialFiles(in))),
              ReadOnly |-> TRUE, MountPath |-> <<"/", "netlab", "/", "initial.cfg">>,
              SubPath |-> Head(initialFiles(in)).ConfigMapPath])]

\* mountSkyforgeC9sArtifacts: every file under /tmp/skyforge-c9s/ is mounted
\* at its own path, unless something is mounted there
SkyforgeC9sDir == <<"/", "tmp", "/", "skyforge-c9s", "/">>
RECURSIVE mountArtifactsFrom(_, _, _)
mountArtifactsFrom(d, files, i) ==
    IF i > Len(files) THEN d
    ELSE IF \/ TrimSpace(files[i].ConfigMapName) = <<>>
            \/ TrimSpace(files[i].ConfigMapPath) = <<>>
            \/ ~HasPrefix(TrimSpace(files[i].FilePath), SkyforgeC9sDir)
            \/ TrimSpace(files[i].FilePath) \in MountPaths(d)
    THEN mountArtifactsFrom(d, files, i + 1)
    ELSE mountArtifactsFrom(
             [d EXCEPT !.Mounts = Append(@,
                 [Name |-> fileVolumeName(files[i]),
                  ReadOnly |-> TRUE,
                  MountPath |-> TrimSpace(files[i].FilePath),
                  SubPath |-> files[i].ConfigMapPath])],
             files, i + 1)
mountSkyforgeC9sArtifacts(d, in) == mountArtifactsFrom(d, in.Files, 1)

\* sanitizeLinuxIfName of the nativemode package: a byte outside [A-Za-z0-9_-]
\* becomes "_", the name is cut to 15 bytes and lowercased
iolIfNameByte(c) ==
    IF c \in Range(LowerChars) \cup Range(UpperChars) \cup Range(DigitChars) \cup {"_", "-"}
    THEN c ELSE "_"
sanitizeIOLIfName(s) ==
    ToLower(Prefix([i \in DOMAIN TrimSpace(s) |-> iolIfNameByte(TrimSpace(s)[i])],
                   linuxIfNameMaxLen))

\* strings.Compare(a, b) < 0
RECURSIVE bytesLess(_, _)
bytesLess(a, b) ==
    IF b = <<>> THEN FALSE
    ELSE IF a = <<>> THEN TRUE
    ELSE IF Head(a) # Head(b) THEN CodePoint(Head(a)) < CodePoint(Head(b))
    ELSE bytesLess(Tail(a), Tail(b))

\* slices.Sort of distinct names
RECURSIVE sortedNames(_)
sortedNames(S) ==
    IF S = {} THEN <<>>
    ELSE <<CHOOSE a \in S : \A b \in S \ {a} : bytesLess(a, b)>>
           \o sortedNames(S \ {CHOOSE a \in S : \A b \in S \ {a} : bytesLess(a, b)})

\* strings.Join(names, ",")
RECURSIVE joinComma(_)
joinComma(names) ==
    IF names = <<>> THEN <<>>
    ELSE IF Len(names) = 1 THEN names[1]
    ELSE names[1] \o <<",">> \o joinComma(Tail(names))

\* the interface parts of the endpoints "<NodeName>:<interface>" of the links
\* that have two endpoints
ownEndpointIfs(in) ==
    { AfterByte(TrimSpace(ep), ":") :
        ep \in { e \in UNION { Range(l) : l \in { k \in Range(in.Links) : Len(k) = 2 } } :
                   /\ IndexByte(TrimSpace(e), ":") > 0
                   /\ BeforeByte(TrimSpace(e), ":") = in.NodeName } }

\* collectIOLLinkIfaces
collectIOLLinkIfaces(in) ==
    sortedNames({ sanitizeIOLIfName(p) : p \in ownEndpointIfs(in) } \ {<<>>})

\* the env of applyCiscoIOL
iolEnv(env, in) ==
    upsertEnvTrimmed(
      upsertEnvTrimmed(
        upsertEnvTrimmed(
          upsertEnvTrimmed(env, <<"SKYFORGE_NODE_NAME">>, in.NodeName),
          <<"IOL_PID">>, itoaBytes(computeIOLPID(in))),
        <<"SKYFORGE_IOL_NVRAM">>, nvramName(computeIOLPID(in))),
      <<"SKYFORGE_IOL_LINK_IFACES">>, joinComma(collectIOLLinkIfaces(in)))

\* applyCiscoIOL
applyCiscoIOL(d, in) ==
    [mountSkyforgeC9sArtifacts(mountNetlabInitialConfig(ensureIOLRuntimeVolume(d), in), in)
       EXCEPT !.Env = sortEnvByName(iolEnv(@, in)),
              !.Command = <<"bash", "-lc", "iol-bootstrap.sh">>]

\* the kind switch of ApplyNativeModeOverrides
\* the switch on strings.ToLower(kind), kind the trimmed NodeDef.Kind
applyKind(d, in, rv, order) ==
    CASE ToLower(TrimSpace(in.Kind)) \in {KindCeos, KindEos} -> applyCEOS(d, in, order)
      [] ToLower(TrimSpace(in.Kind)) \in {KindCiscoVios, KindCiscoViosl2}
           -> applyCiscoVIOS(d, in)
      [] ToLower(TrimSpace(in.Kind)) = KindCiscoIol -> applyCiscoIOL(d, in)
      [] ToLower(TrimSpace(in.Kind)) = KindVrVmx
           -> IF rv = "A" THEN applyJuniperVMX_A(d, in) ELSE applyJuniperVMX_B(d, in)
      [] OTHER -> d

\* strconv.Itoa of a link index
Itoa(n) == <<"0", "1", "2", "3", "4">>[n + 1]

\* strconv.Atoi: an optional sign and decimal digits; ok is FALSE on an error
IsDigits(s) == s # <<>> /\ \A i \in DOMAIN s : s[i] \in Range(DigitChars)
RECURSIVE digitsValue(_)
digitsValue(s) ==
    IF s = <<>> THEN 0
    ELSE 10 * digitsValue(SubSeq(s, 1, Len(s) - 1))
         + (CHOOSE d \in 0..9 : DigitChars[d + 1] = s[Len(s)])
Atoi(s) ==
    IF IsDigits(s) THEN [ok |-> TRUE, n |-> digitsValue(s)]
    ELSE IF Len(s) > 1 /\ s[1] = "+" /\ IsDigits(Tail(s))
    THEN [ok |-> TRUE, n |-> digitsValue(Tail(s))]
    ELSE IF Len(s) > 1 /\ s[1] = "-" /\ IsDigits(Tail(s))
    THEN [ok |-> TRUE, n |-> 0 - digitsValue(Tail(s))]
    ELSE [ok |-> FALSE, n |-> 0]

EthStr == <<"e","t","h">>

\* what one endpoint contributes to computeClabIntfs: the index N of the
\* node's own ethN, or 0 when the endpoint is skipped
ethName(ep) == BeforeByte(TrimSpace(AfterByte(TrimSpace(ep), ":")), ".")
ethIndex(ep, nodeName) ==
    IF \/ TrimSpace(ep) = <<>>
       \/ IndexByte(TrimSpace(ep), ":") = 0
       \/ TrimSpace(BeforeByte(TrimSpace(ep), ":")) # nodeName
       \/ TrimSpace(AfterByte(TrimSpace(ep), ":")) = <<>>
       \/ ~HasPrefix(ethName(ep), EthStr)
       \/ ~Atoi(SubSeq(ethName(ep), 4, Len(ethName(ep)))).ok
       \/ Atoi(SubSeq(ethName(ep), 4, Len(ethName(ep)))).n <= 0
    THEN 0
    ELSE Atoi(SubSeq(ethName(ep), 4, Len(ethName(ep)))).n

\* computeClabIntfs: the highest N over this node's endpoints named ethN
ethIndexes(in) ==
    {0} \cup { ethIndex(ep, TrimSpace(in.NodeName)) :
                 ep \in UNION { Range(l) : l \in Range(in.Links) } }

\* the endpoints of all links, whatever node they name
computeClabIntfs_anyNode(in) ==
    IF TrimSpace(in.NodeName) = <<>> THEN 0
    ELSE CHOOSE n \in {0} \cup { ethIndex(<<"x", ":">> \o AfterByte(TrimSpace(ep), ":"), <<"x">>) :
                                   ep \in UNION { Range(l) : l \in Range(in.Links) } } :
           \A m \in {0} \cup { ethIndex(<<"x", ":">> \o AfterByte(TrimSpace(ep), ":"), <<"x">>) :
                                 ep \in UNION { Range(l) : l \in Range(in.Links) } } : m <= n
computeClabIntfs(in) ==
    IF TrimSpace(in.NodeName) = <<>> THEN 0
    ELSE CHOOSE n \in ethIndexes(in) : \A m \in ethIndexes(in) : m <= n

vrnetlabEnv(env, n) ==
    IF n > 0
    THEN upsertEnvTrimmed(upsertEnvTrimmed(env, <<"CLAB_MGMT_PASSTHROUGH">>, <<"false">>),
                          <<"CLAB_INTFS">>, itoaBytes(n))
    ELSE upsertEnvTrimmed(env, <<"CLAB_MGMT_PASSTHROUGH">>, <<"false">>)

\* applyVrnetlabQemuNative
applyVrnetlabQemuNative(d, in) ==
    IF \/ TrimSpace(in.Kind) = <<>>
       \/ ~imageHasDir(in.NodeImage, Vrnetlab)
       \/ ToLower(TrimSpace(in.Kind)) \in {KindCiscoIol, KindCiscoIoll2}
    THEN d
    ELSE [mountStartupConfig(d, in, VrnetlabStartupConfigMount)
            EXCEPT !.Env = vrnetlabEnv(@, computeClabIntfs(in)),
                   !.Sec = vrnetlabSecurityContext]

\* applyCommandOverride
applyCommandOverride(d, in) ==
    IF Len(d.Command) > 0 THEN d
    ELSE IF TrimSpace(in.Cmd) # <<>>
    THEN [d EXCEPT !.Command = <<"sh", "-c", StringOf(TrimSpace(in.Cmd))>>]
    ELSE IF TrimSpace(in.Entrypoint) # <<>>
    THEN [d EXCEPT !.Command = <<"sh", "-c", StringOf(TrimSpace(in.Entrypoint))>>]
    ELSE d

sortEnv(d) == [d EXCEPT !.Env = sortEnvByName(@)]

\* ApplyNativeModeOverrides; envOrder is the order the iteration over
\* NodeDef.Env gives its keys, ceosOrder that of the iteration over ceosEnv
ApplyNativeModeOverrides(d, in, rv, envOrder, ceosOrder) ==
    IF TrimSpace(in.Kind) = <<>> THEN d
    ELSE sortEnv(
           applyCommandOverride(
             applyVrnetlabQemuNative(
               applyKind(
                 applyBindMounts(
                   applyLinux(applyEnvMap(d, in.Env, envOrder), in),
                   in),
                 in, rv, ceosOrder),
               in),
             in))

\* renderDeploymentContainer, the env of the node definition: every key is
\* appended as it is spelled, and the list is sorted
RECURSIVE appendEnvFrom(_, _, _, _)
appendEnvFrom(env, envMap, order, i) ==
    IF i > Len(order) THEN env
    ELSE appendEnvFrom(Append(env, EnvVar(order[i], envMap[order[i]])), envMap, order, i + 1)
nodeDefEnv(d, envMap, order) ==
    IF DOMAIN envMap = {} THEN d
    ELSE [d EXCEPT !.Env = sortEnvByName(appendEnvFrom(@, envMap, order, 1))]

\* renderDeploymentContainer, the block of the ceos and eos kinds
nodeDefCEOS(d, in, order) ==
    IF EqualFold(in.Kind, KindCeos) \/ EqualFold(in.Kind, KindEos)
    THEN applyCEOS(d, in, order) ELSE d

\* renderDeploymentContainer, the block of the cisco_iol kind: the PID is
\* taken from the first two bytes of the SHA-1 of the seed, the interface
\* names from the controller's sanitizeLinuxIfName, and the script is written
\* with the node name and the PID in it
nodeDefIOLPID(in) == (Sum(iolSeed(in))[1][1] % iolPIDMod) + 1
nodeDefIOLLinkIfaces(in) ==
    sortedNames({ sanitizeLinuxIfName_A(p) : p \in ownEndpointIfs(in) } \ {<<>>})
nodeDefIOLEnv(env, in) ==
    upsertEnvTrimmed(
      upsertEnvTrimmed(
        upsertEnvTrimmed(env, <<"IOL_PID">>, itoaBytes(nodeDefIOLPID(in))),
        <<"SKYFORGE_IOL_NVRAM">>, nvramName(nodeDefIOLPID(in))),
      <<"SKYFORGE_IOL_LINK_IFACES">>, joinComma(nodeDefIOLLinkIfaces(in)))
nodeDefIOL(d, in) ==
    IF ~EqualFold(in.Kind, KindCiscoIol) THEN d
    ELSE [mountNetlabInitialConfig(ensureIOLRuntimeVolume(d), in)
            EXCEPT !.Env = nodeDefIOLEnv(@, in),
                   !.Command = <<"bash", "-lc",
                                 StringOf(<<"iol-bootstrap node=">> \o in.NodeName
                                          \o <<" pid=">> \o itoaBytes(nodeDefIOLPID(in)))>>]

\* renderDeploymentContainer, the closing cmd and entrypoint override
nodeDefCmd(d, in) ==
    IF TrimSpace(in.Cmd) # <<>>
    THEN [d EXCEPT !.Command = <<"sh", "-c", StringOf(in.Cmd)>>]
    ELSE IF TrimSpace(in.Entrypoint) # <<>>
    THEN [d EXCEPT !.Command = <<"sh", "-c", StringOf(in.Entrypoint)>>]
    ELSE d

\* renderDeploymentContainer: what it makes of the NOS container of a node that
\* has a node definition
renderDeploymentContainer(d, in, envOrder, ceosOrder) ==
    nodeDefCmd(
      applyBindMounts(
        nodeDefIOL(
          nodeDefCEOS(nodeDefEnv(applyLinux(d, in), in.Env, envOrder), in, ceosOrder),
          in),
        in),
      in)

\* the node definitions the overrides are applied to
MaxEnvKeys == 2
EnvKeys == { <<"A">>, <<" ", "A">>, <<"B">>, <<" ">>, <<"INTFTYPE">>, <<"CLAB_MGMT_VRF">> }
EnvValues == { <<"1">>, <<"2">> }
EnvMaps ==
    UNION { [K -> EnvValues] : K \in { S \in SUBSET EnvKeys : Cardinality(S) <= MaxEnvKeys } }

KindImages ==
    { <<KindLinux, ImageAlpine>>,
      <<KindCeos, ImageCeos>>,
      <<KindVrVmx, ImageVrVmx>>,
      <<KindCiscoVios, ImageCiscoVios>>,
      <<KindSrl, ImageSrlinux>> }
\* a cmd or entrypoint is a sequence of tokens, a white-space byte being one
Cmds == { <<>>, <<"run.sh">> }
\* a file path is a sequence of tokens: "/", a white-space byte, or a run of
\* other bytes
StartupConfigs == { <<>>, <<"configs", "/", "r1.cfg">> }
FilesFromConfigMap ==
    <<[ConfigMapName |-> <<"cm-r1">>, ConfigMapPath |-> <<"r1.cfg">>,
      FilePath |-> <<"configs", "/", "r1.cfg">>]>>
BindLists ==
    { <<>>,
      <<[host |-> "/lib/modules", absolute |-> TRUE, container |-> <<"/", "lib", "/", "modules">>,
         ro |-> TRUE]>> }
NodeR1 == <<"r","1">>
NodeR2 == <<"r","2">>
\* "<node>:<interface>"
Endpoint(node, ifName) == node \o <<":">> \o ifName
NodeLinks ==
    << <<Endpoint(NodeR1, <<"e","t","h","2">>), Endpoint(NodeR2, <<"e","t","h","1">>)>> >>

ApplyInput(ki, cmd, startup, env, binds) ==
    [NodeName |-> NodeR1, Kind |-> ki[1], NodeImage |-> ki[2], Cmd |-> cmd,
     Entrypoint |-> <<>>, StartupConfig |-> startup, Env |-> env, Binds |-> binds,
     Links |-> NodeLinks, Files |-> FilesFromConfigMap, Topology |-> OwningTopologyName]

ApplyInputs ==
    { ApplyInput(ki, cmd, startup, env, binds) :
        ki \in KindImages, cmd \in Cmds, startup \in StartupConfigs,
        env \in EnvMaps, binds \in BindLists }

KeyOrders(in) == Perms(DOMAIN in.Env)

InitNative ==
    /\ proxy = Idle
    /\ setup = Idle
    /\ rev \in Revs
    /\ VxIdle
    /\ resolve = Idle
    /\ podnet = Idle
    /\ CtrlIdle
    /\ \E in \in ApplyInputs :
          overrides = [pc |-> "new", in |-> in, first |-> FreshDep,
                       second |-> FreshDep, again |-> FreshDep]

\* a reconcile renders the node's deployment and applies the overrides to it
Render ==
    /\ overrides.pc = "new"
    /\ \E envOrder \in KeyOrders(overrides.in), ceosOrder \in CeosOrders :
          overrides' = [overrides EXCEPT
              !.pc = "rendered",
              !.first = ApplyNativeModeOverrides(FreshDep, overrides.in, rev,
                                                 envOrder, ceosOrder)]
    /\ UNCHANGED <<vxVars, cacheVars, proxy, setup, resolve, podnet, ctrl, naming>>

\* the overrides are applied a second time to what the first application left
ApplyAgain ==
    /\ overrides.pc = "rendered"
    /\ \E envOrder \in KeyOrders(overrides.in), ceosOrder \in CeosOrders :
          overrides' = [overrides EXCEPT
              !.pc = "reapplied",
              !.second = ApplyNativeModeOverrides(overrides.first, overrides.in,
                                                  rev, envOrder, ceosOrder)]
    /\ UNCHANGED <<vxVars, cacheVars, proxy, setup, resolve, podnet, ctrl, naming>>

\* another reconcile renders the same node from the same inputs
RenderAgain ==
    /\ overrides.pc = "rendered"
    /\ \E envOrder \in KeyOrders(overrides.in), ceosOrder \in CeosOrders :
          overrides' = [overrides EXCEPT
              !.pc = "rerendered",
              !.again = ApplyNativeModeOverrides(FreshDep, overrides.in, rev,
                                                 envOrder, ceosOrder)]
    /\ UNCHANGED <<vxVars, cacheVars, proxy, setup, resolve, podnet, ctrl, naming>>

NextNative == Render \/ ApplyAgain \/ RenderAgain

SpecNative == InitNative /\ [][NextNative]_vars

-----------------------------------------------------------------------------
(* The deployment reconciler: controllers/topology/deployment.go             *)
(*                                                                           *)
(* A Go slice is a record that says whether it is nil and holds its items:   *)
(* reflect.DeepEqual tells a nil slice from an empty one.                    *)

NilSlice == [nil |-> TRUE, items |-> <<>>]
Slice(items) == [nil |-> FALSE, items |-> items]

\* reflect.DeepEqual on the values of the model
DeepEqual(a, b) == a = b

\* util/kubernetes.ExistingMapStringStringContainsAllExpectedKeyValues: every
\* expected key is in the existing map with the expected value
ExistingMapStringStringContainsAllExpectedKeyValues(existing, expected) ==
    \A k \in DOMAIN expected : k \in DOMAIN existing /\ existing[k] = expected[k]

\* util/kubernetes.ContainersEqual: the same number of containers, and each
\* existing container equal to the rendered container of its name
ContainersEqual(existing, rendered) ==
    /\ Len(existing.items) = Len(rendered.items)
    /\ \A i \in DOMAIN existing.items :
          \E j \in DOMAIN rendered.items : existing.items[i] = rendered.items[j]

\* Conforms without the look at the owner references
Conforms_anyOwner(existing, rendered, expectedOwnerUID) ==
    /\ DeepEqual(existing.Replicas, rendered.Replicas)
    /\ DeepEqual(existing.Selector, rendered.Selector)
    /\ rendered.Hostname = existing.Hostname
    /\ ExistingMapStringStringContainsAllExpectedKeyValues(existing.NodeSelector,
                                                           rendered.NodeSelector)
    /\ DeepEqual(existing.Tolerations, rendered.Tolerations)
    /\ DeepEqual(existing.Volumes, rendered.Volumes)
    /\ ContainersEqual(existing.Containers, rendered.Containers)
    /\ DeepEqual(existing.ServiceAccountName, rendered.ServiceAccountName)
    /\ DeepEqual(existing.RestartPolicy, rendered.RestartPolicy)
    /\ ExistingMapStringStringContainsAllExpectedKeyValues(existing.Annotations,
                                                           rendered.Annotations)
    /\ ExistingMapStringStringContainsAllExpectedKeyValues(existing.Labels,
                                                           rendered.Labels)
    /\ ExistingMapStringStringContainsAllExpectedKeyValues(existing.TemplateAnnotations,
                                                           rendered.TemplateAnnotations)
    /\ ExistingMapStringStringContainsAllExpectedKeyValues(existing.TemplateLabels,
                                                           rendered.TemplateLabels)

\* Conforms with the labels of the object compared for equality
Conforms_equalLabels(existing, rendered, expectedOwnerUID) ==
    /\ Conforms_anyOwner(existing, rendered, expectedOwnerUID)
    /\ existing.Labels = rendered.Labels
    /\ Len(existing.OwnerReferences.items) = 1
    /\ existing.OwnerReferences.items[1].UID = expectedOwnerUID

\* DeploymentReconciler.Conforms: the checks in the order of the code, each
\* returning false when it fails
Conforms(existing, rendered, expectedOwnerUID) ==
    /\ DeepEqual(existing.Replicas, rendered.Replicas)
    /\ DeepEqual(existing.Selector, rendered.Selector)
    /\ rendered.Hostname = existing.Hostname
    /\ ExistingMapStringStringContainsAllExpectedKeyValues(existing.NodeSelector,
                                                           rendered.NodeSelector)
    /\ DeepEqual(existing.Tolerations, rendered.Tolerations)
    /\ DeepEqual(existing.Volumes, rendered.Volumes)
    /\ ContainersEqual(existing.Containers, rendered.Containers)
    /\ DeepEqual(existing.ServiceAccountName, rendered.ServiceAccountName)
    /\ DeepEqual(existing.RestartPolicy, rendered.RestartPolicy)
    /\ ExistingMapStringStringContainsAllExpectedKeyValues(existing.Annotations,
                                                           rendered.Annotations)
    /\ ExistingMapStringStringContainsAllExpectedKeyValues(existing.Labels,
                                                           rendered.Labels)
    /\ ExistingMapStringStringContainsAllExpectedKeyValues(existing.TemplateAnnotations,
                                                           rendered.TemplateAnnotations)
    /\ ExistingMapStringStringContainsAllExpectedKeyValues(existing.TemplateLabels,
                                                           rendered.TemplateLabels)
    /\ Len(existing.OwnerReferences.items) = 1
    /\ existing.OwnerReferences.items[1].UID = expectedOwnerUID

\* the deployment Render gives for the linux node r1 of the native-mode
\* topology t1; the tolerations are those of the topology
\* (renderDeploymentScheduling).  renderDeploymentBase: the selector labels,
\* under the names of their keys in the constants package; the labels of the
\* object and of the pod template are the same when there are no global labels
SelectorLabels ==
    [LabelKubernetesName |-> "t1-r1", LabelApp |-> "clabernetes", LabelName |-> "t1-r1",
     LabelTopologyOwner |-> "t1", LabelTopologyNode |-> "r1"]
\* renderDeploymentContainer, native mode: the NOS container has the node's
\* name and image and comes first, the launcher is "clabernetes-launcher"
LauncherContainer == [Name |-> "clabernetes-launcher", Image |-> "launcher:1"]
NosContainer == [Name |-> "r1", Image |-> "alpine:3"]
SetupContainer == [Name |-> "clabernetes-setup", Image |-> "launcher:1"]
TopologyTolerations == { NilSlice, Slice(<<"dedicated">>) }
RenderedDeployment(tolerations) ==
    [Replicas |-> 1,
     Selector |-> SelectorLabels,
     Hostname |-> "r1",
     NodeSelector |-> [zone |-> "a"],
     Tolerations |-> tolerations,
     Volumes |-> Slice(<<"t1-config", "docker", "dev-kvm", "dev-fuse", "dev-net-tun">>),
     Containers |-> Slice(<<NosContainer, LauncherContainer>>),
     ServiceAccountName |-> "clabernetes-launcher-service-account",
     RestartPolicy |-> "Always",
     Annotations |-> [team |-> "net"],
     Labels |-> SelectorLabels,
     TemplateAnnotations |-> [team |-> "net"],
     TemplateLabels |-> SelectorLabels,
     OwnerReferences |-> NilSlice,
     InitContainers |-> Slice(<<SetupContainer>>),
     ShareProcessNamespace |-> TRUE]

DeploymentFields == DOMAIN RenderedDeployment(NilSlice)

\* the values a field of the deployment in the cluster may have instead
MoreLabels ==
    [LabelKubernetesName |-> "t1-r1", LabelApp |-> "clabernetes", LabelName |-> "t1-r1",
     LabelTopologyOwner |-> "t1", LabelTopologyNode |-> "r1", extra |-> "x"]
OtherLabels ==
    [LabelKubernetesName |-> "t1-r1", LabelApp |-> "clabernetes", LabelName |-> "t1-r1",
     LabelTopologyOwner |-> "t1", LabelTopologyNode |-> "r2"]
FewerLabels ==
    [LabelKubernetesName |-> "t1-r1", LabelApp |-> "clabernetes", LabelName |-> "t1-r1",
     LabelTopologyOwner |-> "t1"]
OwnerRef(uid) == [Kind |-> "Topology", UID |-> uid]
FieldValues ==
    [Replicas |-> <<2>>,
     Selector |-> <<MoreLabels, OtherLabels, FewerLabels>>,
     Hostname |-> <<"r2">>,
     NodeSelector |-> <<[zone |-> "a", disk |-> "ssd"], [zone |-> "b"], [disk |-> "ssd"]>>,
     Tolerations |-> <<NilSlice, Slice(<<>>), Slice(<<"dedicated">>), Slice(<<"spot">>)>>,
     Volumes |-> <<Slice(<<"docker", "t1-config", "dev-kvm", "dev-fuse", "dev-net-tun">>),
                   Slice(<<"t1-config", "docker">>)>>,
     Containers |-> <<Slice(<<LauncherContainer, NosContainer>>),
                      Slice(<<[Name |-> "r1", Image |-> "alpine:4"], LauncherContainer>>),
                      Slice(<<LauncherContainer>>)>>,
     ServiceAccountName |-> <<"default">>,
     RestartPolicy |-> <<"Never">>,
     Annotations |-> <<[team |-> "net", rev |-> "7"], [team |-> "ops"], [rev |-> "7"]>>,
     Labels |-> <<MoreLabels, OtherLabels, FewerLabels>>,
     TemplateAnnotations |-> <<[team |-> "net", rev |-> "7"], [team |-> "ops"], [rev |-> "7"]>>,
     TemplateLabels |-> <<MoreLabels, OtherLabels, FewerLabels>>,
     OwnerReferences |-> <<Slice(<<OwnerRef("u1")>>), Slice(<<OwnerRef("u2")>>),
                           Slice(<<OwnerRef("u1"), OwnerRef("u2")>>), Slice(<<>>)>>,
     InitContainers |-> <<Slice(<<>>)>>,
     ShareProcessNamespace |-> <<FALSE>>]

\* the deployment in the cluster: the rendered one but for the fields of D,
\* which take the value pick names
MaxDeviations == 2
Deviations ==
    { D \in SUBSET DeploymentFields : Cardinality(D) <= MaxDeviations }
Picks(D) == { p \in [D -> 1..4] : \A f \in D : p[f] <= Len(FieldValues[f]) }
ExistingDeployment(rendered, D, pick) ==
    [f \in DeploymentFields |-> IF f \in D THEN FieldValues[f][pick[f]] ELSE rendered[f]]

OwnerUIDs == {"u1", "u2"}

InitConforms ==
    /\ proxy = Idle
    /\ setup = Idle
    /\ rev \in Revs
    /\ VxIdle
    /\ resolve = Idle
    /\ podnet = Idle
    /\ overrides = Idle
    /\ naming = Idle
    /\ \E tol \in TopologyTolerations, D \in Deviations, uid \in OwnerUIDs :
         \E pick \in Picks(D \cup {"OwnerReferences"}) :
            ctrl = [pc |-> "call",
                    rendered |-> RenderedDeployment(tol),
                    existing |-> ExistingDeployment(RenderedDeployment(tol),
                                                    D \cup {"OwnerReferences"}, pick),
                    uid |-> uid,
                    conforms |-> FALSE]

\* the reconciler asks whether the deployment in the cluster conforms
ConformsCall ==
    /\ ctrl.pc = "call"
    /\ ctrl' = [ctrl EXCEPT !.pc = "done",
                            !.conforms = Conforms(ctrl.existing, ctrl.rendered, ctrl.uid)]
    /\ UNCHANGED <<vxVars, cacheVars, proxy, setup, resolve, podnet, overrides, naming>>

NextConforms == ConformsCall

SpecConforms == InitConforms /\ [][NextConforms]_vars

\* DetermineNodesNeedingRestart that queues every resolved node
DetermineNodesNeedingRestart_allResolved(d) ==
    IF d.PreviousHash = d.ResolvedHash THEN d
    ELSE [d EXCEPT !.NodesNeedingReboot = @ \cup d.ResolvedConfigs]

\* DetermineNodesNeedingRestart, on the reconcile data: the config hashes, the
\* node names of the previous and of the resolved configs, the set to fill
DetermineNodesNeedingRestart(d) ==
    IF d.PreviousHash = d.ResolvedHash THEN d
    ELSE [d EXCEPT !.NodesNeedingReboot =
                      @ \cup { n \in d.ResolvedConfigs : n \in d.PreviousConfigs }]

ConfigHashes == {"h1", "h2"}
NodeNames == {"r1", "r2", "r3"}

InitRestart ==
    /\ proxy = Idle
    /\ setup = Idle
    /\ rev \in Revs
    /\ VxIdle
    /\ resolve = Idle
    /\ podnet = Idle
    /\ overrides = Idle
    /\ naming = Idle
    /\ \E ph \in ConfigHashes, rh \in ConfigHashes,
          pc \in SUBSET NodeNames, rc \in SUBSET NodeNames, nr \in SUBSET {"r1"} :
         ctrl = [pc |-> "call", before |-> nr,
                 data |-> [PreviousHash |-> ph, ResolvedHash |-> rh,
                           PreviousConfigs |-> pc, ResolvedConfigs |-> rc,
                           NodesNeedingReboot |-> nr]]

\* the reconciler settles which nodes to restart
DetermineRestart ==
    /\ ctrl.pc = "call"
    /\ ctrl' = [ctrl EXCEPT !.pc = "done",
                            !.data = DetermineNodesNeedingRestart(ctrl.data)]
    /\ UNCHANGED <<vxVars, cacheVars, proxy, setup, resolve, podnet, overrides, naming>>

NextRestart == DetermineRestart

SpecRestart == InitRestart /\ [][NextRestart]_vars

-----------------------------------------------------------------------------
(* The NOS container of cEOS and EOS nodes, with the env maps a node may
   declare *)

KindCEOSMixedCase == <<"c","E","O","S">>
CeosKinds == {KindCeos, KindEos, KindCEOSMixedCase}
CeosEnvKeys ==
    { <<"A">>, <<"CEOS">>, <<" ", "CEOS">>, <<"INTFTYPE">>, <<"CLAB_MGMT_VRF">>,
      <<" ", "CLAB_MGMT_VRF">> }
CeosEnvValues == { <<"1">>, <<"et">>, <<" ">>, <<" ", "et", " ">> }
CeosEnvMaps ==
    UNION { [K -> CeosEnvValues] :
              K \in { S \in SUBSET CeosEnvKeys : Cardinality(S) <= MaxEnvKeys } }
CeosInputs ==
    { ApplyInput(<<k, ImageCeos>>, cmd, <<>>, env, <<>>) :
        k \in CeosKinds, cmd \in Cmds, env \in CeosEnvMaps }

InitCeos ==
    /\ proxy = Idle
    /\ setup = Idle
    /\ rev \in Revs
    /\ VxIdle
    /\ resolve = Idle
    /\ podnet = Idle
    /\ CtrlIdle
    /\ \E in \in CeosInputs :
          overrides = [pc |-> "new", in |-> in, first |-> FreshDep,
                       second |-> FreshDep, again |-> FreshDep]

\* a reconcile renders the NOS container with the overrides written out in
\* renderDeploymentContainer
RenderContainer ==
    /\ overrides.pc = "new"
    /\ \E envOrder \in KeyOrders(overrides.in), ceosOrder \in CeosOrders :
          overrides' = [overrides EXCEPT
              !.pc = "contained",
              !.first = renderDeploymentContainer(podDep(overrides.in, FALSE),
                                                  overrides.in, envOrder, ceosOrder)]
    /\ UNCHANGED <<vxVars, cacheVars, proxy, setup, resolve, podnet, ctrl, naming>>

NextCeos == Render \/ RenderContainer

SpecCeos == InitCeos /\ [][NextCeos]_vars

-----------------------------------------------------------------------------
(* Render: the pod template's ShareProcessNamespace next to the NOS container *)

\* Topology.Spec.Deployment.NativeMode, a *bool
NativeModeFlags == {"nil", "true", "false"}

\* the flag taken to be set whenever it is not nil
ResolveNativeMode_unsetFalse(flag) == flag = "true"

\* ResolveNativeMode: the flag's value, and true when the flag is not set
ResolveNativeMode(flag) == IF flag = "nil" THEN TRUE ELSE flag = "true"

\* renderDeploymentBase: ShareProcessNamespace, a *bool
baseShareProcessNamespace(native) == IF native THEN "true" ELSE "nil"

\* renderDeploymentNative: the switch on node.Kind
renderDeploymentNative(share, native, kind) ==
    IF native /\ kind \in {KindCeos, KindEos} THEN "nil" ELSE share

VolumeMount(name, readOnly, mountPath, subPath) ==
    [Name |-> name, ReadOnly |-> readOnly, MountPath |-> mountPath, SubPath |-> subPath]

\* the context of the NOS container that renderDeploymentContainer built
nosSecurityContext(d) == d.Sec

\* renderDeploymentContainer: the containers of the pod template, the NOS
\* container first when the node runs in native mode
podContainers(native, d) ==
    IF native
    THEN <<[Role |-> "nos", SecurityContext |-> nosSecurityContext(d)],
           [Role |-> "launcher", SecurityContext |-> NoSecurityContext]>>
    ELSE <<[Role |-> "launcher", SecurityContext |-> NoSecurityContext]>>

\* renderDeploymentContainerPrivileges: every container of the pod is given
\* the same context, whatever context it had
renderDeploymentContainerPrivileges(containers, privilegedLauncher) ==
    [i \in DOMAIN containers |->
        [containers[i] EXCEPT !.SecurityContext =
            IF privilegedLauncher
            THEN SecurityContext("true", "0", "nil", {})
            ELSE SecurityContext("false", "0", "nil", launcherCapabilities)]]

\* renderDeploymentContainerPrivileges: the apparmor annotations, by the
\* container they name
apparmorUnconfined(native, privilegedLauncher) ==
    IF privilegedLauncher THEN {}
    ELSE IF native THEN {"node", "clabernetes-launcher"} ELSE {"node"}

\* renderDeploymentPersistence: the claim's volume is appended to the
\* volumes of the pod
persistenceVolumes(enabled) ==
    IF enabled
    THEN <<[Name |-> <<"containerlab-directory-persistence">>, Source |-> <<"pvc", "">>]>>
    ELSE <<>>

\* ensureVolume of renderDeploymentDevices: nothing is added when the pod has a
\* volume of the name
ensureVolume(volumes, name, hostPath) ==
    IF \E k \in DOMAIN volumes : volumes[k].Name = name THEN volumes
    ELSE Append(volumes, [Name |-> name, Source |-> <<"hostPath", hostPath>>])
deviceVolumes(volumes) ==
    ensureVolume(ensureVolume(ensureVolume(volumes, <<"dev-kvm">>, "/dev/kvm"),
                              <<"dev-fuse">>, "/dev/fuse"),
                 <<"dev-net-tun">>, "/dev/net/tun")
\* Render: the volumes of the pod after renderDeploymentDevices and
\* renderDeploymentPersistence
renderPodVolumes(volumes, persistence) ==
    deviceVolumes(volumes) \o persistenceVolumes(persistence)

\* ensureMount of renderDeploymentDevices: nothing is added when the container
\* has a mount of the name, or a mount whose trimmed path is the path
ensureMount(mounts, name, mountPath) ==
    IF \E k \in DOMAIN mounts :
          mounts[k].Name = name \/ TrimSpace(mounts[k].MountPath) = mountPath
    THEN mounts
    ELSE Append(mounts, VolumeMount(name, FALSE, mountPath, <<>>))
\* renderDeploymentDevices: the three device mounts of one container
deviceMounts(mounts) ==
    ensureMount(
      ensureMount(
        ensureMount(mounts, <<"dev-kvm">>, <<"/", "dev", "/", "kvm">>),
        <<"dev-fuse">>, <<"/", "dev", "/", "fuse">>),
      <<"dev-net-tun">>, <<"/", "dev", "/", "net", "/", "tun">>)

\* Render: the NOS container renderDeploymentContainer built and the volumes
\* of the pod, as renderDeploymentContainerPrivileges and
\* renderDeploymentDevices leave them
renderNosContainer(d, privilegedLauncher) ==
    [d EXCEPT
       !.Sec = renderDeploymentContainerPrivileges(
                   podContainers(TRUE, d), privilegedLauncher)[1].SecurityContext,
       !.Volumes = deviceVolumes(@),
       !.Mounts = deviceMounts(@)]

KindEOSUpperCase == <<"E","O","S">>
PodKinds == {KindCeos, KindEos, KindCEOSMixedCase, KindEOSUpperCase, KindLinux, KindSrl}
PodInputs ==
    { ApplyInput(<<k, ImagePlain>>, cmd, startup, env, <<>>) :
        k \in PodKinds, cmd \in Cmds, startup \in StartupConfigs, env \in EnvMaps }

InitPod ==
    /\ proxy = Idle
    /\ setup = Idle
    /\ rev \in Revs
    /\ VxIdle
    /\ resolve = Idle
    /\ podnet = Idle
    /\ CtrlIdle
    /\ \E in \in PodInputs, flag \in NativeModeFlags, privilegedLauncher \in BOOLEAN,
          enabled \in BOOLEAN, secrets \in BOOLEAN :
          overrides = [pc |-> "new", in |-> in, NativeMode |-> flag,
                       PrivilegedLauncher |-> privilegedLauncher,
                       Persistence |-> enabled, Secrets |-> secrets, native |-> FALSE,
                       first |-> FreshDep, share |-> "nil"]

\* Render: what it leaves of a NOS container d and of the pod's volumes next
\* to it; without native mode there is no NOS container, and the volumes are
\* those of renderDeploymentVolumes
renderedPod(d, in, native, privilegedLauncher, secrets, persistence) ==
    IF native
    THEN [renderNosContainer(d, privilegedLauncher)
            EXCEPT !.Volumes = @ \o persistenceVolumes(persistence)]
    ELSE [podDep(in, secrets) EXCEPT !.Volumes = renderPodVolumes(@, persistence)]

\* Render: renderDeploymentBase, renderDeploymentVolumes,
\* renderDeploymentContainer, renderDeploymentNative,
\* renderDeploymentContainerPrivileges, renderDeploymentDevices and
\* renderDeploymentPersistence, for a node that has a node definition
RenderDeployment ==
    /\ overrides.pc = "new"
    /\ \E envOrder \in KeyOrders(overrides.in), ceosOrder \in CeosOrders :
          overrides' = [overrides EXCEPT
              !.pc = "deployed",
              !.native = ResolveNativeMode(overrides.NativeMode),
              !.first = renderedPod(
                            renderDeploymentContainer(
                                podDep(overrides.in, overrides.Secrets), overrides.in,
                                envOrder, ceosOrder),
                            overrides.in, ResolveNativeMode(overrides.NativeMode),
                            overrides.PrivilegedLauncher, overrides.Secrets,
                            overrides.Persistence),
              !.share = renderDeploymentNative(
                            baseShareProcessNamespace(ResolveNativeMode(overrides.NativeMode)),
                            ResolveNativeMode(overrides.NativeMode), overrides.in.Kind)]
    /\ UNCHANGED <<vxVars, cacheVars, proxy, setup, resolve, podnet, ctrl, naming>>

NextPod == RenderDeployment

SpecPod == InitPod /\ [][NextPod]_vars

-----------------------------------------------------------------------------
(* The security contexts of the pod's containers                             *)

PrivInputs ==
    { ApplyInput(ki, cmd, startup, [k \in {} |-> <<>>], <<>>) :
        ki \in KindImages \cup { <<KindCiscoIol,
                                   ImageCiscoIol>> },
        cmd \in Cmds, startup \in StartupConfigs }

InitPriv ==
    /\ proxy = Idle
    /\ setup = Idle
    /\ rev \in Revs
    /\ VxIdle
    /\ resolve = Idle
    /\ podnet = Idle
    /\ CtrlIdle
    /\ \E in \in PrivInputs, flag \in NativeModeFlags, privilegedLauncher \in BOOLEAN :
          overrides = [pc |-> "new", in |-> in, NativeMode |-> flag,
                       PrivilegedLauncher |-> privilegedLauncher, native |-> FALSE,
                       containers |-> <<>>, unconfined |-> {}]

\* Render: renderDeploymentContainer builds the containers, and
\* renderDeploymentContainerPrivileges, which runs after it, sets their
\* security contexts
RenderPrivileges ==
    /\ overrides.pc = "new"
    /\ \E envOrder \in KeyOrders(overrides.in), ceosOrder \in CeosOrders :
          overrides' = [overrides EXCEPT
              !.pc = "deployed",
              !.native = ResolveNativeMode(overrides.NativeMode),
              !.containers =
                  renderDeploymentContainerPrivileges(
                      podContainers(
                          ResolveNativeMode(overrides.NativeMode),
                          renderDeploymentContainer(podDep(overrides.in, FALSE),
                                                    overrides.in, envOrder, ceosOrder)),
                      overrides.PrivilegedLauncher),
              !.unconfined = apparmorUnconfined(ResolveNativeMode(overrides.NativeMode),
                                                overrides.PrivilegedLauncher)]
    /\ UNCHANGED <<vxVars, cacheVars, proxy, setup, resolve, podnet, ctrl, naming>>

NextPriv == RenderPrivileges

SpecPriv == InitPriv /\ [][NextPriv]_vars

-----------------------------------------------------------------------------
(* The dataplane interface count of a vrnetlab node: link endpoints as the   *)
(* topology writes them                                                      *)

KindCiscoIOLMixedCase == <<"C","i","s","c","o","_","I","O","L">>
IntfsKindImages ==
    { <<KindVrVmx, ImageVrVmx>>,
      <<KindCiscoVios, ImageCiscoVios>>,
      <<KindCiscoIOLMixedCase, ImageCiscoIol>>,
      <<KindCiscoIoll2, ImageCiscoIol>>,
      <<KindVrVmx, ImageVrVmxUpperCase>>,
      <<KindLinux, ImageAlpine>> }

\* interface names of this node's side of a link
OwnIfNameForms ==
    { <<"e","t","h","1">>, <<"e","t","h","5">>, <<"e","t","h","1","2">>,
      <<"e","t","h","0">>, <<"e","t","h","-","3">>, <<"e","t","h","+","6">>,
      <<"e","t","h","0","8">>, <<"e","t","h","7",".","1","0","0">>,
      <<"e","t","h","5","a">>, <<"e","t","h">>, <<" ","e","t","h","4"," ">>,
      <<"E","t","h","e","r","n","e","t","1">>, <<>> }
OwnSides ==
    { Endpoint(NodeR1, n) : n \in OwnIfNameForms }
      \cup { <<" ">> \o Endpoint(NodeR1 \o <<" ">>, <<"e","t","h","3">>) \o <<" ">>,
             NodeR1 \o <<"e","t","h","3">>,
             <<>> }
FarSideR2 == Endpoint(NodeR2, <<"e","t","h","9">>)
FarSideR11 == Endpoint(NodeR1 \o <<"1">>, <<"e","t","h","1","3">>)
LinkLists ==
    { <<>> }
      \cup { << <<a, b>> >> : a \in OwnSides, b \in {FarSideR2, FarSideR11} }
      \cup { << <<a, FarSideR2>>, <<FarSideR11, b>> >> : a \in OwnSides, b \in OwnSides }
IntfsEnvMaps == [{} -> EnvValues] \cup [{<<"CLAB_INTFS">>} -> {<<"9">>}]
IntfsInputs ==
    { [ApplyInput(ki, <<>>, <<>>, env, <<>>) EXCEPT !.Links = ls] :
        ki \in IntfsKindImages, env \in IntfsEnvMaps, ls \in LinkLists }

InitIntfs ==
    /\ proxy = Idle
    /\ setup = Idle
    /\ rev \in Revs
    /\ VxIdle
    /\ resolve = Idle
    /\ podnet = Idle
    /\ CtrlIdle
    /\ \E in \in IntfsInputs :
          overrides = [pc |-> "new", in |-> in, first |-> FreshDep,
                       second |-> FreshDep, again |-> FreshDep]

NextIntfs == Render

SpecIntfs == InitIntfs /\ [][NextIntfs]_vars

-----------------------------------------------------------------------------
(* The command of the NOS container: nodes that carry a cmd or an entrypoint *)

CmdKindImages ==
    { <<KindLinux, ImageAlpine>>,
      <<KindLinux, ImageAlpineTools>>,
      <<KindLinux, ImageBusybox>>,
      <<KindCeos, ImageCeos>>,
      <<KindEOSUpperCase, ImageCeos>>,
      <<KindCiscoIol, ImageCiscoIol>>,
      <<KindCiscoIOLMixedCase, ImageCiscoIol>>,
      <<KindVrVmx, ImageVrVmx>>,
      <<KindSrl, ImageSrlinux>> }
NodeCmds == { <<>>, <<" ">>, <<"run.sh">>, <<" ", "run.sh", " ">> }
NodeEntrypoints == { <<>>, <<" ">>, <<"/entry.sh">> }
CmdEnvMaps == [{} -> EnvValues] \cup [{<<"IOL_PID">>} -> {<<"7">>}] \cup [{<<"A">>} -> {<<"1">>}]
CmdFiles ==
    { FilesFromConfigMap,
      <<[ConfigMapName |-> <<"cm-r1">>, ConfigMapPath |-> <<"initial">>,
         FilePath |-> <<"/", "tmp", "/", "skyforge-c9s", "/", "initial.cfg">>],
        [ConfigMapName |-> <<"cm-r1">>, ConfigMapPath |-> <<"r1.cfg">>,
         FilePath |-> <<"configs", "/", "r1.cfg">>]>> }
CmdLinks ==
    { NodeLinks,
      << <<Endpoint(NodeR1, <<"E","t","h","e","r","n","e","t","0","/","1">>), FarSideR2>>,
         <<Endpoint(NodeR1, <<"e","t","h","2">>), FarSideR11>> >> }
CmdInputs ==
    { [ApplyInput(ki, cmd, <<>>, env, <<>>)
         EXCEPT !.Entrypoint = ep, !.Files = files, !.Links = ls] :
        ki \in CmdKindImages, cmd \in NodeCmds, ep \in NodeEntrypoints,
        env \in CmdEnvMaps, files \in CmdFiles, ls \in CmdLinks }

InitCmd ==
    /\ proxy = Idle
    /\ setup = Idle
    /\ rev \in Revs
    /\ VxIdle
    /\ resolve = Idle
    /\ podnet = Idle
    /\ CtrlIdle
    /\ \E in \in CmdInputs :
          overrides = [pc |-> "new", in |-> in, first |-> FreshDep,
                       second |-> FreshDep, again |-> FreshDep]

NextCmd == Render \/ RenderContainer

SpecCmd == InitCmd /\ [][NextCmd]_vars

-----------------------------------------------------------------------------
(* The PID of a Cisco IOL node: topologies and nodes of several names *)

TopologyNames ==
    { OwningTopologyName, <<" ">> \o OwningTopologyName \o <<" ">>, <<"t","1">>,
      <<"d","c","-","f","a","b","r","i","c",".","p","r","o","d","_","0","1">> }
IOLNodeNames ==
    { NodeR1, NodeR2, NodeR1 \o <<" ">>, <<"S","p","i","n","e","-","0","1">>,
      <<"c","o","r","e","-","r","o","u","t","e","r","-","1">> }
PidEnvMaps ==
    [{} -> EnvValues] \cup [{<<"IOL_PID">>} -> {<<"7">>}]
      \cup [{<<"SKYFORGE_IOL_NVRAM">>} -> {<<"n","v","r","a","m","_","7">>}]
PidInputs ==
    { [ApplyInput(<<k, ImageCiscoIol>>, <<>>, <<>>, env, <<>>)
         EXCEPT !.Topology = t, !.NodeName = n] :
        k \in {KindCiscoIol, KindCiscoIOLMixedCase}, env \in PidEnvMaps,
        t \in TopologyNames, n \in IOLNodeNames }

InitPid ==
    /\ proxy = Idle
    /\ setup = Idle
    /\ rev \in Revs
    /\ VxIdle
    /\ resolve = Idle
    /\ podnet = Idle
    /\ CtrlIdle
    /\ \E in \in PidInputs :
          overrides = [pc |-> "new", in |-> in, first |-> FreshDep,
                       second |-> FreshDep, again |-> FreshDep]

NextPid == Render \/ RenderAgain

SpecPid == InitPid /\ [][NextPid]_vars

-----------------------------------------------------------------------------
(* The startup-config of IOSv and vrnetlab nodes: files from ConfigMaps      *)

KindCiscoVIOSMixedCase == <<"C","i","s","c","o","_","V","I","O","S">>
MountKindImages ==
    { <<KindCiscoVios, ImageCiscoVios>>,
      <<KindCiscoViosl2, ImageIosv>>,
      <<KindCiscoVIOSMixedCase, ImageIosv>>,
      <<KindVrVmx, ImageVrVmx>>,
      <<KindSrl, ImageVrnetlabSrl>>,
      <<KindCiscoIol, ImageCiscoIol>>,
      <<KindLinux, ImageAlpine>> }
StartupConfigPath == <<"configs", "/", "r1.cfg">>
MountStartupConfigs ==
    { <<>>, <<" ">>, StartupConfigPath, <<" ">> \o StartupConfigPath \o <<" ">> }
FileOf(name, path, filePath) ==
    [ConfigMapName |-> name, ConfigMapPath |-> path, FilePath |-> filePath]
MountFiles ==
    { <<>>,
      FilesFromConfigMap,
      <<FileOf(<<"cm-r1">>, <<"other.cfg">>, <<"configs", "/", "other.cfg">>)>>,
      <<FileOf(<<" ">>, <<"blank.cfg">>, StartupConfigPath),
        FileOf(<<"cm-r1">>, <<>>, StartupConfigPath),
        FileOf(<<"cm-r1">>, <<"r1-b.cfg">>, <<" ">> \o StartupConfigPath)>>,
      <<FileOf(<<"cm-r1">>, <<"r1.cfg">>, StartupConfigPath),
        FileOf(<<"cm-r1">>, <<"r1-b.cfg">>, StartupConfigPath)>> }
MountBinds ==
    BindLists
      \cup { <<[host |-> "/srv/r1.cfg", absolute |-> TRUE,
                container |-> VrnetlabStartupConfigMount, ro |-> FALSE]>> }
MountInputs ==
    { [ApplyInput(ki, <<>>, startup, [k \in {} |-> <<>>], binds) EXCEPT !.Files = files] :
        ki \in MountKindImages, startup \in MountStartupConfigs,
        binds \in MountBinds, files \in MountFiles }

InitMount ==
    /\ proxy = Idle
    /\ setup = Idle
    /\ rev \in Revs
    /\ VxIdle
    /\ resolve = Idle
    /\ podnet = Idle
    /\ CtrlIdle
    /\ \E in \in MountInputs :
          overrides = [pc |-> "new", in |-> in, first |-> FreshDep,
                       second |-> FreshDep, again |-> FreshDep]

NextMount == Render

SpecMount == InitMount /\ [][NextMount]_vars

-----------------------------------------------------------------------------
(* The volumes of the pod and the volume mounts of its containers            *)

\* a mount path of the launcher container is a sequence of tokens, as a
\* FilePath is
ClabernetesDir == <<"/", "clabernetes", "/">>
PathOf(dir, name) == dir \o <<name>>

\* renderDeploymentVolumes: the mounts it returns, a relative FilePath being
\* mounted under /clabernetes
secretMounts(secrets) ==
    IF secrets
    THEN <<VolumeMount(<<"docker-daemon-config">>, TRUE, <<"/", "etc", "/", "docker">>, <<>>),
           VolumeMount(<<"docker-config">>, TRUE, <<"/", "root", "/", ".docker">>, <<>>)>>
    ELSE <<>>
fileMountPath(f) ==
    IF HasPrefix(f.FilePath, <<"/">>) THEN f.FilePath ELSE ClabernetesDir \o f.FilePath
volumeMountsFromCommonSpec(in, secrets) ==
    secretMounts(secrets)
      \o [i \in DOMAIN in.Files |->
            VolumeMount(fileVolumeName(in.Files[i]), FALSE, fileMountPath(in.Files[i]),
                        in.Files[i].ConfigMapPath)]

\* renderDeploymentContainer: the mounts the launcher container always has
launcherBaseMounts(in) ==
    <<VolumeMount(configVolumeName(in.Topology), TRUE,
                  PathOf(ClabernetesDir, "topo.clab.yaml"), in.NodeName),
      VolumeMount(configVolumeName(in.Topology), TRUE,
                  PathOf(ClabernetesDir, "files-from-url.yaml"),
                  in.NodeName \o <<"-files-from-url">>),
      VolumeMount(configVolumeName(in.Topology), TRUE,
                  PathOf(ClabernetesDir, "configured-pull-secrets.yaml"),
                  <<"configured-pull-secrets">>),
      VolumeMount(<<"docker">>, FALSE, <<"/", "var", "/", "lib", "/", "docker">>, <<>>)>>

TrimmedMountPaths(mounts) == { TrimSpace(mounts[k].MountPath) : k \in DOMAIN mounts }

\* renderDeploymentContainer: a mount of the common spec is added unless its
\* trimmed path is blank or was seen
RECURSIVE appendUnseen(_, _, _)
appendUnseen(mounts, common, i) ==
    IF i > Len(common) THEN mounts
    ELSE IF \/ TrimSpace(common[i].MountPath) = <<>>
            \/ TrimSpace(common[i].MountPath) \in TrimmedMountPaths(mounts)
    THEN appendUnseen(mounts, common, i + 1)
    ELSE appendUnseen(Append(mounts, common[i]), common, i + 1)
launcherVolumeMounts(in, secrets) ==
    appendUnseen(launcherBaseMounts(in), volumeMountsFromCommonSpec(in, secrets), 1)

\* renderDeploymentPersistence: the mount of the claim's volume is appended
\* to the mounts of the launcher container
persistenceMounts(in, enabled) ==
    IF enabled
    THEN <<VolumeMount(<<"containerlab-directory-persistence">>, FALSE,
                       PathOf(ClabernetesDir,
                              StringOf(<<"clab-clabernetes-">> \o in.NodeName)),
                       <<>>)>>
    ELSE <<>>
renderDeploymentPersistence(mounts, in, enabled) == mounts \o persistenceMounts(in, enabled)

VolKindImages ==
    { <<KindLinux, ImageAlpine>>,
      <<KindCeos, ImageCeos>>,
      <<KindCiscoVios, ImageCiscoVios>>,
      <<KindCiscoIol, ImageCiscoIol>> }
VolFiles ==
    { <<>>,
      FilesFromConfigMap,
      <<FileOf(<<"cm-r1">>, <<"r1.cfg">>, StartupConfigPath),
        FileOf(<<"cm-r1">>, <<"r1.cfg">>, <<"/", "etc", "/", "r1.cfg">>)>>,
      <<FileOf(<<"cm-r1">>, <<"r1.cfg">>, StartupConfigPath),
        FileOf(<<"cm-r1">>, <<"r1-b.cfg">>, StartupConfigPath)>>,
      <<FileOf(<<"cm-r1">>, <<"topo">>, <<"topo.clab.yaml">>)>>,
      <<FileOf(<<"cm-r1">>, <<"lab">>, <<"clab-clabernetes-r1">>)>> }
VolInputs ==
    { [ApplyInput(ki, <<>>, StartupConfigPath, [k \in {} |-> <<>>], binds)
         EXCEPT !.Files = files] :
        ki \in VolKindImages, binds \in BindLists, files \in VolFiles }

InitVolumes ==
    /\ proxy = Idle
    /\ setup = Idle
    /\ rev \in Revs
    /\ VxIdle
    /\ resolve = Idle
    /\ podnet = Idle
    /\ CtrlIdle
    /\ \E in \in VolInputs, flag \in NativeModeFlags, privilegedLauncher \in BOOLEAN,
          enabled \in BOOLEAN, secrets \in BOOLEAN :
          overrides = [pc |-> "new", in |-> in, NativeMode |-> flag,
                       PrivilegedLauncher |-> privilegedLauncher,
                       Persistence |-> enabled, Secrets |-> secrets, native |-> FALSE,
                       volumes |-> <<>>, launcher |-> <<>>, nos |-> FreshDep,
                       containers |-> <<>>]

\* Render: renderDeploymentVolumes, renderDeploymentContainer,
\* renderDeploymentContainerPrivileges, renderDeploymentDevices and
\* renderDeploymentPersistence.  The volumes renderDeploymentContainer adds
\* for the NOS container are appended to the volumes of the pod, which it
\* searches for the names that are taken
RenderVolumes ==
    /\ overrides.pc = "new"
    /\ \E envOrder \in KeyOrders(overrides.in), ceosOrder \in CeosOrders :
       \E d \in { renderDeploymentContainer(podDep(overrides.in, overrides.Secrets),
                                            overrides.in, envOrder, ceosOrder) } :
       \E p \in { renderedPod(d, overrides.in, ResolveNativeMode(overrides.NativeMode),
                               overrides.PrivilegedLauncher, overrides.Secrets,
                               overrides.Persistence) } :
          overrides' = [overrides EXCEPT
              !.pc = "deployed",
              !.native = ResolveNativeMode(overrides.NativeMode),
              !.volumes = p.Volumes,
              !.launcher = renderDeploymentPersistence(
                               deviceMounts(
                                   launcherVolumeMounts(overrides.in, overrides.Secrets)),
                               overrides.in, overrides.Persistence),
              !.nos = IF ResolveNativeMode(overrides.NativeMode) THEN p ELSE FreshDep,
              !.containers =
                  renderDeploymentContainerPrivileges(
                      podContainers(ResolveNativeMode(overrides.NativeMode), d),
                      overrides.PrivilegedLauncher)]
    /\ UNCHANGED <<vxVars, cacheVars, proxy, setup, resolve, podnet, ctrl, naming>>

NextVolumes == RenderVolumes

SpecVolumes == InitVolumes /\ [][NextVolumes]_vars

-----------------------------------------------------------------------------
(* The NetworkAttachmentDefinition reconciler: Resolve *)

\* fmt.Sprintf("%s-l%d", topologyName, idx)
nadName(topologyName, idx) == topologyName \o "-l" \o Itoa(idx)

\* the names of one node's config only
allLinks_firstConfig(clabernetesConfigs) ==
    IF DOMAIN clabernetesConfigs = {} THEN {}
    ELSE { nadName(clabernetesConfigs[CHOOSE n \in DOMAIN clabernetesConfigs : TRUE].Name,
                   idx - 1) :
              idx \in 1..clabernetesConfigs[CHOOSE n \in DOMAIN clabernetesConfigs : TRUE].Links }

\* allLinks: one name for every index of nodeConfig.Topology.Links, over all
\* node configs (a config holds its name and the length of its link list)
allLinks(clabernetesConfigs) ==
    UNION { { nadName(clabernetesConfigs[n].Name, idx - 1) :
                 idx \in 1..clabernetesConfigs[n].Links } :
            n \in DOMAIN clabernetesConfigs }

\* ObjectDiffer.SetMissing: the expected names with no current object, in the
\* order given
SetMissing(current, allExpectedNames) ==
    SelectSeq(allExpectedNames, LAMBDA n : n \notin current)

\* ObjectDiffer.SetExtra: the current objects whose name is not expected, in the
\* order of a map iteration
SetExtra(current, allExpectedNames, order) ==
    SelectSeq(order, LAMBDA n : n \notin Range(allExpectedNames))

\* Resolve: names is allNADNames, the keys of allLinks in the order of a map
\* iteration; currentOrder is an order of differ.Current
Resolve(ownedNADs, names, currentOrder) ==
    [Current |-> ownedNADs,
     Missing |-> SetMissing(ownedNADs, names),
     Extra |-> SetExtra(ownedNADs, names, currentOrder)]

MaxLinks == 2
ConfigNames == {"t1", "t2"}
ConfigNodes == {"n1", "n2"}
NodeConfigs == [Name : ConfigNames, Links : 0..MaxLinks]
ClabernetesConfigs == UNION { [ns -> NodeConfigs] : ns \in SUBSET ConfigNodes }
OwnedNADNames == {"t1-l0", "t1-l1", "t2-l0", "t1-mgmt"}

InitNAD ==
    /\ proxy = Idle
    /\ setup = Idle
    /\ rev \in Revs
    /\ VxIdle
    /\ resolve = Idle
    /\ podnet = Idle
    /\ overrides = Idle
    /\ naming = Idle
    /\ \E cs \in ClabernetesConfigs, owned \in SUBSET OwnedNADNames :
         ctrl = [pc |-> "resolve", configs |-> cs, owned |-> owned,
                 differ |-> [Current |-> {}, Missing |-> <<>>, Extra |-> <<>>]]

\* the reconciler resolves the NADs of the topology
ResolveNADs ==
    /\ ctrl.pc = "resolve"
    /\ \E names \in Perms(allLinks(ctrl.configs)), currentOrder \in Perms(ctrl.owned) :
         ctrl' = [ctrl EXCEPT !.pc = "resolved",
                              !.differ = Resolve(ctrl.owned, names, currentOrder)]
    /\ UNCHANGED <<vxVars, cacheVars, proxy, setup, resolve, podnet, overrides, naming>>

NextNAD == ResolveNADs

SpecNAD == InitNAD /\ [][NextNAD]_vars

-----------------------------------------------------------------------------
(* Interface naming: sanitizeLinuxIfName and vxlanHostSideLinkName applied to
   names as a topology may spell them *)

\* parts of interface names: plain, capitalised, with separators, blank,
\* forbidden bytes only, white space and a letter beyond ASCII, and long enough
\* that two or three exceed 15 bytes, or the 55 bytes of a one-block SHA-1
NameParts ==
    { <<>>, <<"e","t","h","1">>, <<"E","t","h","e","r","n","e","t">>, <<"0","/","1">>,
      <<" ">>, <<"$","%">>, <<"U+3000","é">>,
      <<"H","u","n","d","r","e","d","G","i","g","a","b","i","t","E","t","h","e","r","n","e","t">>,
      <<"G","i","g","a","b","i","t","E","t","h","e","r","n","e","t">> }
RawNames == { a \o b \o c : a \in NameParts, b \in NameParts, c \in NameParts }

\* a second over-long name, for comparing two results
OtherNames ==
    { <<"G","i","g","a","b","i","t","E","t","h","e","r","n","e","t","0","/","2">>,
      <<"E","t","h","e","r","n","e","t","E","t","h","e","r","n","e","t","0",":","1">> }

LocalNodeNames ==
    { <<"n","1">>, <<"S","p","i","n","e","-","0","1">>, <<"n","é","é","é","é","1">>,
      <<"c","o","r","e","-","r","o","u","t","e","r","-","1">> }

InitNaming ==
    /\ proxy = Idle
    /\ setup = Idle
    /\ rev \in Revs
    /\ VxIdle
    /\ resolve = Idle
    /\ podnet = Idle
    /\ overrides = Idle
    /\ ctrl = Idle
    /\ \E r \in RawNames, o \in OtherNames, n \in LocalNodeNames :
         naming = [pc |-> "raw", raw |-> r, other |-> o, node |-> n,
                   link |-> <<>>, otherLink |-> <<>>, hostSide |-> <<>>]

\* link := sanitizeLinuxIfName(cntLink)
Sanitize ==
    /\ naming.pc = "raw"
    /\ naming' = [naming EXCEPT
                    !.pc = "sanitized",
                    !.link = IF rev = "A" THEN sanitizeLinuxIfName_A(naming.raw)
                             ELSE sanitizeLinuxIfName_B(naming.raw),
                    !.otherLink = IF rev = "A" THEN sanitizeLinuxIfName_A(naming.other)
                                  ELSE sanitizeLinuxIfName_B(naming.other)]
    /\ UNCHANGED <<vxVars, cacheVars, proxy, setup, resolve, podnet, overrides, ctrl>>

\* revision A: the host side is fmt.Sprintf("%s-%s", localNodeName, link)
\* (vxlan.go:201); revision B: hostSide := vxlanHostSideLinkName(localNodeName,
\* link) (vxlan.go:605, 904)
HostSideLinkName ==
    /\ naming.pc = "sanitized"
    /\ naming' = [naming EXCEPT
                    !.pc = "named",
                    !.hostSide = IF rev = "A"
                                 THEN hostSideName_A(naming.node, naming.link)
                                 ELSE vxlanHostSideLinkName(naming.node, naming.link)]
    /\ UNCHANGED <<vxVars, cacheVars, proxy, setup, resolve, podnet, overrides, ctrl>>

NextNaming == Sanitize \/ HostSideLinkName

SpecNaming == InitNaming /\ [][NextNaming]_vars

-----------------------------------------------------------------------------
(* The names of a Cisco IOL node's link interfaces: the list the controller   *)
(* puts in SKYFORGE_IOL_LINK_IFACES and the link the launcher creates         *)

\* the node with one link, from its interface naming.raw to a neighbour
IOLLinkInput ==
    [NodeName |-> naming.node,
     Links |-> << <<Endpoint(naming.node, naming.raw), Endpoint(NodeR2, naming.other)>> >>]

InitIol ==
    /\ proxy = Idle
    /\ setup = Idle
    /\ rev \in Revs
    /\ VxIdle
    /\ resolve = Idle
    /\ podnet = Idle
    /\ overrides = Idle
    /\ ctrl = Idle
    /\ \E r \in RawNames, o \in OtherNames, n \in LocalNodeNames :
         naming = [pc |-> "raw", raw |-> r, other |-> o, node |-> n,
                   link |-> <<>>, otherLink |-> <<>>, hostSide |-> <<>>,
                   listed |-> [done |-> FALSE, names |-> <<>>]]

\* the controller renders the node: collectIOLLinkIfaces
CollectIOLLinkIfaces ==
    /\ ~naming.listed.done
    /\ naming' = [naming EXCEPT
                    !.listed = [done |-> TRUE, names |-> collectIOLLinkIfaces(IOLLinkInput)]]
    /\ UNCHANGED <<vxVars, cacheVars, proxy, setup, resolve, podnet, overrides, ctrl>>

NextIol == CollectIOLLinkIfaces \/ Sanitize \/ HostSideLinkName

SpecIol == InitIol /\ [][NextIol]_vars

-----------------------------------------------------------------------------
(* The SSH proxy task: maybeStartVrnetlabSSHProxy, runTCPProxy               *)
(*                                                                           *)
(* proxy.file: the revision of maybeStartVrnetlabSSHProxy, by its file and   *)
(* line.  pc: "new", "wait" (the goroutine is in the select on the grace     *)
(* timer), "dial", "listen", "accept" (runTCPProxy is in its loop), "off"    *)
(* (no task), "skipped", "failed", "returned".  accepted: the connections    *)
(* Accept has returned whose handler has not yet run; dials: the start       *)
(* times of the handlers' DialContext calls that have not returned; conns:   *)
(* the handlers that copy.  Times are seconds since the launcher started;    *)
(* -1 stands for "never".                                                    *)

defaultWaitBeforeProxy == 120
iolWaitBeforeProxy == 5
\* handleProxyConn: net.Dialer{Timeout: 5 * time.Second}
vrnetlabDialTimeout == 5
MaxConns == 2

\* the revisions of maybeStartVrnetlabSSHProxy
ProxyRevisions ==
    { "part_002:20", "part_002:106", "part_003:24", "part_003:245", "part_004:21",
      "part_005:22" }
\* those whose goroutine waits and probes before it listens on :22
GraceRevisions == { "part_002:106", "part_005:22" }

ProxyImages ==
    { ImageCiscoIol17, ImageCiscoIolL2, ImageVrCsr17, ImageCiscoAsav9, ImageCiscoAsavx,
      ImageSrlinux }
ProxyKinds == { KindCiscoIOLMixedCase, KindLinux }

\* the instants at which something happens
Instants == {0, 3, 5, 60, 120, 125}

\* img := strings.ToLower(strings.TrimSpace(c.imageName));
\* strings.Contains(img, "/cisco_iol")
isIOLImage(img) == Contains(ToLower(TrimSpace(img)), <<"/","c","i","s","c","o","_","i","o","l">>)
\* strings.Contains(img, "/vrnetlab/cisco_asav")
isASAv(img) ==
    Contains(ToLower(TrimSpace(img)),
             <<"/","v","r","n","e","t","l","a","b","/","c","i","s","c","o","_","a","s","a","v">>)
\* part_003:24: kind := strings.ToLower(strings.TrimSpace(c.nodeKind));
\* kind != "cisco_iol" && kind != "cisco_ioll2"
isIOLKind(kind) == ToLower(TrimSpace(kind)) \in {KindCiscoIol, KindCiscoIoll2}

\* the grace period of the revision for the image
waitBeforeProxy(f, img) ==
    IF f = "part_002:106" /\ isIOLImage(img) THEN iolWaitBeforeProxy
    ELSE defaultWaitBeforeProxy

\* the tests maybeStartVrnetlabSSHProxy makes before it starts its goroutine:
\* native mode; the node's kind (part_003:24) or a vrnetlab image (the
\* others); in part_002:106 SKYFORGE_VRNETLAB_SSH_PROXY as well
proxyWanted(p) ==
    /\ p.native
    /\ IF p.file = "part_003:24" THEN isIOLKind(p.kind)
       ELSE imageHasDir(p.img, Vrnetlab)
    /\ p.file = "part_002:106" => p.enable

\* what a revision reads of the node: part_003:24 its kind and no image, the
\* others the image and no kind, part_002:106 SKYFORGE_VRNETLAB_SSH_PROXY as
\* well.  What a revision does not read has one value here, but for the image
\* of part_003:24, which the grace period of the node is told by
ImagesRead(f) ==
    IF f = "part_003:24" THEN {ImageCiscoIol17, ImageSrlinux} ELSE ProxyImages
KindsRead(f) == IF f = "part_003:24" THEN ProxyKinds ELSE {KindLinux}
EnablesRead(f) == IF f = "part_002:106" THEN BOOLEAN ELSE {FALSE}

\* (the proxy reads nothing of the revision of the connectivity code)
InitProxy ==
    /\ rev = "B"
    /\ setup = Idle
    /\ VxIdle
    /\ resolve = Idle
    /\ podnet = Idle
    /\ overrides = Idle
    /\ CtrlIdle
    /\ \E f \in ProxyRevisions, n \in BOOLEAN :
       \E img \in ImagesRead(f), kind \in KindsRead(f), e \in EnablesRead(f) :
         proxy = [pc |-> "new", file |-> f, native |-> n, img |-> img, kind |-> kind,
                  enable |-> e, ctx |-> "live", cancelledAt |-> -1, now |-> 0,
                  deadline |-> -1, port22 |-> "free", probe |-> "none",
                  listener |-> "none", openedAt |-> -1, accepted |-> 0,
                  dials |-> <<>>, conns |-> 0]

ProxyUnchanged ==
    UNCHANGED <<vxVars, cacheVars, setup, resolve, podnet, overrides, ctrl, naming>>

\* maybeStartVrnetlabSSHProxy up to the start of its goroutine.  The goroutine
\* of part_002:20, part_003:24, part_003:245 and part_004:21 calls runTCPProxy
\* at once, and so does that of part_005:22 for an ASAv image, on port 2222;
\* that of part_002:106 and part_005:22 waits first
MaybeStartVrnetlabSSHProxy ==
    /\ proxy.pc = "new"
    /\ proxy' =
         IF ~proxyWanted(proxy) THEN [proxy EXCEPT !.pc = "off"]
         ELSE IF proxy.file \notin GraceRevisions THEN [proxy EXCEPT !.pc = "listen"]
         ELSE IF proxy.file = "part_005:22" /\ isASAv(proxy.img)
         THEN [proxy EXCEPT !.pc = "listen"]
         ELSE [proxy EXCEPT !.pc = "wait",
                            !.deadline = proxy.now
                                         + waitBeforeProxy(proxy.file, proxy.img)]
    /\ ProxyUnchanged

\* time passes; a DialContext that was started returns before its timeout
Advance ==
    /\ \E t \in Instants :
         /\ t > proxy.now
         /\ \A j \in DOMAIN proxy.dials : t <= proxy.dials[j] + vrnetlabDialTimeout
         /\ proxy' = [proxy EXCEPT !.now = t]
    /\ proxy.pc # "new"
    /\ ProxyUnchanged

\* the root context is cancelled
CancelRootContext ==
    /\ proxy.pc # "new"
    /\ proxy.ctx = "live"
    /\ proxy' = [proxy EXCEPT !.ctx = "cancelled", !.cancelledAt = proxy.now]
    /\ ProxyUnchanged

\* QEMU binds its hostfwd port 22 in the pod's network namespace
QemuBindsPort22 ==
    /\ proxy.pc # "new"
    /\ proxy.port22 = "free"
    /\ proxy.listener # ":22"
    /\ proxy' = [proxy EXCEPT !.port22 = "qemu"]
    /\ ProxyUnchanged

\* the select on the grace timer and ctx.Done(): the goroutine goes on with
\* the case that became ready first
GraceSelect ==
    /\ proxy.pc = "wait"
    /\ \/ /\ proxy.ctx = "cancelled"
          /\ proxy.cancelledAt <= proxy.deadline
          /\ proxy' = [proxy EXCEPT !.pc = "returned"]
       \/ /\ proxy.now >= proxy.deadline
          /\ proxy.ctx = "cancelled" => proxy.cancelledAt >= proxy.deadline
          /\ proxy' = [proxy EXCEPT !.pc = "dial"]
    /\ ProxyUnchanged

\* the dial probe of 127.0.0.1:22: it connects when the port is bound and
\* the context is live
DialProbe ==
    /\ proxy.pc = "dial"
    /\ proxy' = IF proxy.port22 = "qemu" /\ proxy.ctx = "live"
                THEN [proxy EXCEPT !.pc = "skipped", !.probe = "connected"]
                ELSE [proxy EXCEPT !.pc = "listen", !.probe = "refused"]
    /\ ProxyUnchanged

\* the address runTCPProxy is called with
listenAddr(p) ==
    IF p.file = "part_005:22" /\ isASAv(p.img) THEN ":2222" ELSE ":22"

\* runTCPProxy up to its loop: lc.Listen fails when the port is bound
Listen ==
    /\ proxy.pc = "listen"
    /\ proxy' = IF listenAddr(proxy) = ":22" /\ proxy.port22 = "qemu"
                THEN [proxy EXCEPT !.pc = "failed"]
                ELSE [proxy EXCEPT !.pc = "accept",
                                   !.listener = listenAddr(proxy),
                                   !.openedAt = proxy.now]
    /\ ProxyUnchanged

\* a client connects: ln.Accept(), which the context has no part in, returns
\* the connection and "go handleProxyConn" is executed
AcceptConn ==
    /\ proxy.pc = "accept"
    /\ proxy.accepted + Len(proxy.dials) + proxy.conns < MaxConns
    /\ proxy' = [proxy EXCEPT !.accepted = @ + 1]
    /\ ProxyUnchanged

\* the goroutine of a handler runs: handleProxyConn calls DialContext
HandleProxyConn ==
    /\ proxy.accepted > 0
    /\ proxy' = [proxy EXCEPT !.accepted = @ - 1,
                              !.dials = Append(@, proxy.now)]
    /\ ProxyUnchanged

\* a handler's DialContext returns: with the context cancelled, or a target
\* that does not answer, it returns an error and the handler returns;
\* otherwise the handler copies
DialReturns ==
    /\ \E j \in DOMAIN proxy.dials, dialOk \in BOOLEAN :
         proxy' = [proxy EXCEPT
                     !.dials = SubSeq(@, 1, j - 1) \o SubSeq(@, j + 1, Len(@)),
                     !.conns = IF proxy.ctx = "live" /\ dialOk THEN @ + 1 ELSE @]
    /\ ProxyUnchanged

\* Accept returns an error: with the context done runTCPProxy returns and its
\* deferred ln.Close() runs, otherwise the loop goes on
AcceptError ==
    /\ proxy.pc = "accept"
    /\ proxy' = IF proxy.ctx = "cancelled"
                THEN [proxy EXCEPT !.pc = "returned", !.listener = "none"]
                ELSE proxy
    /\ ProxyUnchanged

\* one side of a proxied connection closes: its handler returns
HandlerEnds ==
    /\ proxy.conns > 0
    /\ proxy' = [proxy EXCEPT !.conns = @ - 1]
    /\ ProxyUnchanged

\* the steps of the task's own goroutine
ProxyTaskStep == GraceSelect \/ DialProbe \/ Listen

NextProxy ==
    \/ MaybeStartVrnetlabSSHProxy
    \/ Advance
    \/ CancelRootContext
    \/ QemuBindsPort22
    \/ GraceSelect
    \/ DialProbe
    \/ Listen
    \/ AcceptConn
    \/ HandleProxyConn
    \/ DialReturns
    \/ AcceptError
    \/ HandlerEnds

SpecProxy == InitProxy /\ [][NextProxy]_vars

\* the goroutines run whenever they can and a dial returns; clients, accept
\* errors and the ends of connections come from outside and are not owed
SpecProxyLive ==
    /\ InitProxy
    /\ [][NextProxy]_vars
    /\ WF_vars(MaybeStartVrnetlabSSHProxy)
    /\ WF_vars(ProxyTaskStep)
    /\ WF_vars(HandleProxyConn)
    /\ WF_vars(DialReturns)

-----------------------------------------------------------------------------
(* Properties of updateVxlanTunnels *)

\* the local interfaces of a tunnel list
IfsOf(list) == { list[i].LocalInterface : i \in DOMAIN list }

\* the list holds exactly the tunnels of the map
ListEqualsMap(list, m) ==
    /\ IfsOf(list) = DOMAIN m
    /\ \A i \in DOMAIN list : m[list[i].LocalInterface] = list[i]

\* every tunnel of the list is held, equal, in the map
ListWithinMap(list, m) ==
    \A i \in DOMAIN list :
        list[i].LocalInterface \in DOMAIN m /\ m[list[i].LocalInterface] = list[i]

\* the positions of the log holding a command op for the interface ifc
CmdsAt(op, ifc) == { k \in DOMAIN cmdLog : cmdLog[k].op = op /\ cmdLog[k].ifc = ifc }

\* the positions of the log holding a delete of the two diff steps
DiffDeletes ==
    { k \in DOMAIN cmdLog :
        cmdLog[k].op = "vxlan-delete" /\ cmdLog[k].step \in {"extraneous", "replace"} }

\* the desired tunnels the map does not hold equal
ToReCreateIfs ==
    { desired[i].LocalInterface : i \in { j \in DOMAIN desired :
        ~(/\ desired[j].LocalInterface \in DOMAIN prevTunnels
          /\ prevTunnels[desired[j].LocalInterface] = desired[j]) } }

\* C1: an updateVxlanTunnels call whose list equals the tunnels held in
\* currentTunnels issues no VXLAN delete, no veth creation and no VXLAN create.
C1_NoOpOnEqualList ==
    (lastOp = "update" /\ ListEqualsMap(desired, prevTunnels)) =>
        \A k \in DOMAIN cmdLog :
            cmdLog[k].op \notin {"vxlan-delete", "link-add", "vxlan-create"}

C1_Witness ==
    /\ lastOp = "update"
    /\ Len(desired) = 2
    /\ ListEqualsMap(desired, prevTunnels)
    /\ vxlanIfs # {}

\* C2: when the desired list is the current tunnels minus some local interfaces,
\* the retained tunnels unchanged, no delete and no create is issued for a
\* retained interface, no removed interface gets more than one delete, and a
\* call that returns has issued exactly one delete for each removed interface.
C2_DeleteOnlyRemoved ==
    (lastOp = "update" /\ ListWithinMap(desired, prevTunnels)) =>
        /\ \A i \in IfsOf(desired) :
              CmdsAt("vxlan-delete", i) = {} /\ CmdsAt("vxlan-create", i) = {}
        /\ \A i \in DOMAIN prevTunnels \ IfsOf(desired) :
              /\ Cardinality(CmdsAt("vxlan-delete", i)) <= 1
              /\ phase = "running" => Cardinality(CmdsAt("vxlan-delete", i)) = 1
        /\ \A k \in DOMAIN cmdLog : cmdLog[k].op = "vxlan-delete"

C2_Witness ==
    /\ lastOp = "update"
    /\ phase = "running"
    /\ ListWithinMap(desired, prevTunnels)
    /\ Len(desired) = 1
    /\ Cardinality(DOMAIN prevTunnels) = 2
    /\ Len(cmdLog) = 1

\* C3: a desired tunnel is created only if currentTunnels has no entry for
\* its local interface or an entry unequal to it, and a call that returns has
\* created every such tunnel; the create of a tunnel that replaces an unequal
\* entry comes after the delete of the old one; every delete of the two diff
\* steps comes before the first create of the call.
C3_DeleteBeforeCreate ==
    lastOp = "update" =>
        /\ \A k \in DOMAIN cmdLog :
              cmdLog[k].op = "vxlan-create" => cmdLog[k].ifc \in ToReCreateIfs
        /\ phase = "running" =>
              \A i \in ToReCreateIfs :
                  \E k \in CmdsAt("vxlan-create", i) : cmdLog[k].ok
        /\ \A i \in ToReCreateIfs \cap DOMAIN prevTunnels :
              \A k \in CmdsAt("vxlan-create", i) :
                  \E d \in DiffDeletes :
                      d < k /\ cmdLog[d].ifc = i /\ cmdLog[d].step = "replace" /\ cmdLog[d].ok
        /\ \A d \in DiffDeletes :
              \A k \in DOMAIN cmdLog : cmdLog[k].step = "create" => d < k

C3_Witness ==
    /\ lastOp = "update"
    /\ phase = "running"
    /\ \E i \in ToReCreateIfs \cap DOMAIN prevTunnels :
          \E k \in CmdsAt("vxlan-create", i) : cmdLog[k].ok
    /\ \E d \in DiffDeletes : cmdLog[d].step = "extraneous"
    /\ ToReCreateIfs \ DOMAIN prevTunnels = {}

-----------------------------------------------------------------------------
(* Properties of the tunnels cache *)

\* the file exists and holds at least one byte
PresentNonEmpty(f) == f.exists /\ f.bytes # <<>>

\* the launcher has ended in Fatalf and no tunnel was set up
FatalWithoutTunnels ==
    /\ launcherRes = "fatal"
    /\ pod = "dead"
    /\ phase = "fatal"
    /\ cmdLog = <<>>
    /\ vxlanIfs = {}
    /\ currentTunnels = EmptyMap

\* the launcher read the list from the API: a failed read is fatal
ReadThroughAPI ==
    /\ apiCalls = 1
    /\ IF apiErr THEN FatalWithoutTunnels
       ELSE launcherRes = "ok" /\ initialTunnels = crTunnels

\* the launcher took the list from the file and asked nothing of the API
TakenFromFile ==
    /\ launcherRes = "ok"
    /\ apiCalls = 0
    /\ initialTunnels = Unmarshal(filePrev.bytes).v

\* C4: when the cache file exists and is non-empty as the setup step runs,
\* cacheNodeTunnels returns success, makes no cluster API request and leaves
\* the file as it was.
C4_SetupKeepsFile ==
    (launcherOp = "setup" /\ PresentNonEmpty(filePrev)) =>
        /\ launcherRes = "ok"
        /\ apiCalls = 0
        /\ file = filePrev

C4_Witness ==
    /\ launcherOp = "setup"
    /\ setupRuns >= 2
    /\ PresentNonEmpty(filePrev)
    /\ Unmarshal(filePrev.bytes).ok
    /\ Len(Unmarshal(filePrev.bytes).v) = 2
    /\ pod = "start"

\* C5 as claimed: at launcher start the list is taken from the cache file
\* whenever the file is present and non-empty, with no API request; a missing
\* or empty file leads to the API, and a failed read there is fatal with no
\* tunnel set up.
C5_AsClaimed ==
    launcherOp = "connectivity" =>
        IF PresentNonEmpty(filePrev) THEN TakenFromFile ELSE ReadThroughAPI

\* C5, amended: the list is taken from the cache file, with no API request,
\* whenever the file is present, non-empty and parses as a tunnel list; a
\* missing or empty file leads to the API, and a failed read there is fatal
\* with no tunnel set up; a non-empty file that does not parse is never used:
\* revision A ends in Fatalf without an API request, revision B reads from
\* the API.
C5_FileWhenParsable ==
    launcherOp = "connectivity" =>
        IF ~PresentNonEmpty(filePrev) THEN ReadThroughAPI
        ELSE IF Unmarshal(filePrev.bytes).ok THEN TakenFromFile
        ELSE IF rev = "A" THEN apiCalls = 0 /\ FatalWithoutTunnels
        ELSE ReadThroughAPI

C5_Witness ==
    /\ launcherOp = "connectivity"
    /\ PresentNonEmpty(filePrev)
    /\ Unmarshal(filePrev.bytes).ok
    /\ initialTunnels # <<>>
    /\ initialTunnels # crTunnels
    /\ TakenFromFile
    /\ lastOp = "run"

-----------------------------------------------------------------------------
(* Properties of resolveVXLANService *)

\* the lookups ended with exactly one address
DNSGaveOne == resolve.errs < resolveServiceMaxAttempts /\ resolve.count = 1

\* C6: resolving a destination that is not an IP literal fails only if both
\* paths fail: when the DNS lookups do not end with exactly one address the
\* service is resolved through the Kubernetes API, and an error is returned
\* only when that fallback fails too.
C6_FailsOnlyIfBothFail ==
    resolve.pc = "done" =>
        IF DNSGaveOne THEN ~resolve.out.err
        ELSE /\ resolve.out.kubeCalled
             /\ resolve.out.err <=>
                  resolveVXLANServiceViaKubeAPI(resolve.host, resolve.podNs,
                                                resolve.kube).err

\* revision A resolved through the Kubernetes API after DNS gave two addresses
C6_FallbackTaken ==
    /\ resolve.pc = "done"
    /\ rev = "A"
    /\ resolve.count = 2
    /\ resolve.out.kubeCalled
    /\ ~resolve.out.err

\* revision A alone has the fallback of C6
ResolveFallsBack_A == rev = "A" => C6_FailsOnlyIfBothFail

-----------------------------------------------------------------------------
(* Properties of the snapshot replay *)

\* the positions of the replay's log that hold a route replace
RouteCmds == { i \in DOMAIN podnet.log : podnet.log[i].op = "route-replace" }

\* C7: the replay issues the route replace of every route without a gateway
\* before that of any route with a gateway, whatever their order in the
\* snapshot.
C7_NoGatewayFirst ==
    podnet.last = "replay" =>
        \A i, j \in RouteCmds :
            (podnet.log[i].arg.Gateway # "" /\ podnet.log[j].arg.Gateway = "") => j < i

\* revision A replayed a snapshot that lists the default route first
C7_TwoPassReplay ==
    /\ podnet.last = "replay"
    /\ rev = "A"
    /\ podnet.snap.Routes[1].Gateway # ""
    /\ Cardinality(RouteCmds) = Len(podnet.snap.Routes)
    /\ podnet.err = "none"

\* revision A alone orders the replay as C7 says
NoGatewayFirst_A == rev = "A" => C7_NoGatewayFirst

\* C8: the replay deletes nothing: its commands are the link up, address
\* replaces and route replaces, and every address eth0 had before a command
\* of the replay is on eth0 after it.
C8_ReplayDeletesNothing ==
    podnet.last \in {"cmd", "replay"} =>
        /\ \A i \in DOMAIN podnet.log :
              podnet.log[i].op \in {"link-up", "addr-replace", "route-replace"}
        /\ podnet.prevAddrs \subseteq podnet.addrs

C8_Witness ==
    /\ podnet.last = "cmd"
    /\ podnet.log # <<>>
    /\ AddrNos \in podnet.prevAddrs
    /\ AddrV4 \notin podnet.prevAddrs
    /\ AddrV4 \in podnet.addrs
    /\ AddrNos \in podnet.addrs

-----------------------------------------------------------------------------
(* Properties of ApplyNativeModeOverrides *)

SameOverrides(a, b) ==
    /\ a.Env = b.Env
    /\ a.Args = b.Args
    /\ a.Command = b.Command
    /\ a.Mounts = b.Mounts
    /\ a.Volumes = b.Volumes
    /\ a.Sec = b.Sec

\* C9: a second application of ApplyNativeModeOverrides to the deployment and
\* NOS container a first application produced leaves the env list, args,
\* command, volume mounts, pod volumes and security context as the first
\* application left them
C9_Idempotent ==
    overrides.pc = "reapplied" => SameOverrides(overrides.second, overrides.first)

\* what does hold of a second application: everything but the env list is as
\* the first application left it, and so is the env list of a node definition
\* whose env map has no key with a name
NamedKeys(in) == { k \in DOMAIN in.Env : TrimSpace(k) # <<>> }
IdempotentButEnv ==
    overrides.pc = "reapplied" =>
        /\ SameOverrides([overrides.second EXCEPT !.Env = <<>>],
                         [overrides.first EXCEPT !.Env = <<>>])
        /\ NamedKeys(overrides.in) = {} => overrides.second.Env = overrides.first.Env
IdempotentButEnv_Witness ==
    /\ overrides.pc = "reapplied"
    /\ overrides.in.Kind = KindCeos
    /\ overrides.in.StartupConfig # <<>>
    /\ overrides.in.Binds # <<>>
    /\ NamedKeys(overrides.in) = {}

\* C10: two renderings of the same node from the same inputs give the same
\* env list in the same order, the same command and the same mounts, whatever
\* order the env map is iterated in, also when keys of the env map differ only
\* by surrounding white space
C10_Deterministic ==
    overrides.pc = "rerendered" =>
        /\ overrides.again.Env = overrides.first.Env
        /\ overrides.again.Command = overrides.first.Command
        /\ overrides.again.Mounts = overrides.first.Mounts

\* what does hold of two renderings: they are equal when no two keys of the
\* env map have the same name once trimmed
KeysCollide(in) ==
    \E k1, k2 \in DOMAIN in.Env : k1 # k2 /\ TrimSpace(k1) = TrimSpace(k2)
DeterministicUnlessKeysCollide ==
    (overrides.pc = "rerendered" /\ ~KeysCollide(overrides.in)) =>
        SameOverrides(overrides.again, overrides.first)
DeterministicUnlessKeysCollide_Witness ==
    /\ overrides.pc = "rerendered"
    /\ Cardinality(NamedKeys(overrides.in)) = 2
    /\ ~KeysCollide(overrides.in)

-----------------------------------------------------------------------------
(* Properties of the deployment reconciler *)

Carries(existing, rendered) ==
    \A k \in DOMAIN rendered : k \in DOMAIN existing /\ existing[k] = rendered[k]
SameContainers(a, b) ==
    /\ Len(a.items) = Len(b.items)
    /\ Range(a.items) = Range(b.items)
OneOwner(d, uid) ==
    \E o \in Range(d.OwnerReferences.items) :
        o.UID = uid /\ d.OwnerReferences.items = <<o>>
ConformsAsClaimed(e, r, uid) ==
    /\ OneOwner(e, uid)
    /\ e.Replicas = r.Replicas
    /\ e.Selector = r.Selector
    /\ e.Hostname = r.Hostname
    /\ e.Tolerations = r.Tolerations
    /\ e.Volumes = r.Volumes
    /\ SameContainers(e.Containers, r.Containers)
    /\ e.ServiceAccountName = r.ServiceAccountName
    /\ e.RestartPolicy = r.RestartPolicy
    /\ Carries(e.Labels, r.Labels)
    /\ Carries(e.TemplateLabels, r.TemplateLabels)
    /\ Carries(e.Annotations, r.Annotations)
    /\ Carries(e.TemplateAnnotations, r.TemplateAnnotations)
    /\ Carries(e.NodeSelector, r.NodeSelector)

\* C11: Conforms returns true exactly when the existing deployment has exactly
\* one owner reference, with the expected UID, equals the rendered one in
\* replicas, selector, hostname, tolerations, volumes, containers, service
\* account and restart policy, and carries every label, annotation and
\* node-selector entry of the rendered one
C11_ConformsExactly ==
    ctrl.pc = "done" =>
        (ctrl.conforms <=> ConformsAsClaimed(ctrl.existing, ctrl.rendered, ctrl.uid))

\* a deployment with labels and annotations of its own, and with fields the
\* claim does not name changed, conforms
C11_Witness ==
    /\ ctrl.pc = "done"
    /\ ctrl.conforms
    /\ ctrl.existing.Labels = MoreLabels
    /\ ctrl.existing.Annotations # ctrl.rendered.Annotations

\* a deployment that differs from the rendered one in a named field, or is
\* owned by another, does not conform
C11_Rejects ==
    /\ ctrl.pc = "done"
    /\ ~ctrl.conforms
    /\ ctrl.existing.OwnerReferences = Slice(<<OwnerRef("u1")>>)
    /\ ctrl.uid = "u1"
    /\ ctrl.existing.Tolerations = Slice(<<>>)
    /\ ctrl.rendered.Tolerations = NilSlice

Added == ctrl.data.NodesNeedingReboot \ ctrl.before

\* C12: DetermineNodesNeedingRestart adds no node when the previous and the
\* resolved config hash are equal; when they differ it adds exactly the nodes
\* that are in both the previous and the resolved configs
C12_RestartGatedOnHash ==
    ctrl.pc = "done" =>
        /\ ctrl.before \subseteq ctrl.data.NodesNeedingReboot
        /\ ctrl.data.PreviousHash = ctrl.data.ResolvedHash => Added = {}
        /\ ctrl.data.PreviousHash # ctrl.data.ResolvedHash =>
              ctrl.data.NodesNeedingReboot =
                 ctrl.before \cup (ctrl.data.PreviousConfigs \cap ctrl.data.ResolvedConfigs)

\* the hash changed, a node stayed and is queued, a new node is not
C12_Witness ==
    /\ ctrl.pc = "done"
    /\ ctrl.data.PreviousHash # ctrl.data.ResolvedHash
    /\ ctrl.before = {}
    /\ "r2" \in Added
    /\ "r3" \in ctrl.data.ResolvedConfigs \ ctrl.data.PreviousConfigs
    /\ "r3" \notin ctrl.data.NodesNeedingReboot

-----------------------------------------------------------------------------
(* Properties of interface naming *)

Sanitized == naming.pc \in {"sanitized", "named"}

LowerNameChars == Range(LowerChars) \cup Range(DigitChars) \cup {"_", ".", "-"}

\* raw is blank, or every byte of it is one the sanitizer drops
BlankOrForbiddenOnly(raw) ==
    \/ \A i \in DOMAIN raw : IsSpaceCh(raw[i])
    \/ \A i \in DOMAIN raw :
         raw[i] \notin (LowerNameChars \cup Range(UpperChars) \cup {"/", ":", " "})

\* C13: the sanitized name is non-empty, at most 15 bytes, lowercase and made
\* of [a-z0-9_.-] only, and is "link" for a raw name that is blank or holds
\* only forbidden characters
C13_SanitizedName ==
    Sanitized =>
        /\ naming.link # <<>>
        /\ Len(naming.link) <= 15
        /\ \A i \in DOMAIN naming.link : naming.link[i] \in LowerNameChars
        /\ BlankOrForbiddenOnly(naming.raw) => naming.link = LinkStr

\* the same, for the revision that lowercases
SanitizedName_B == rev = "B" => C13_SanitizedName

\* all of C13 but the case, for the revision that keeps the case
SanitizedNameButCase_A ==
    (rev = "A" /\ Sanitized) =>
        /\ naming.link # <<>>
        /\ Len(naming.link) <= 15
        /\ \A i \in DOMAIN naming.link :
             naming.link[i] \in LowerNameChars \cup Range(UpperChars)
        /\ BlankOrForbiddenOnly(naming.raw) => naming.link = LinkStr

\* a name with capitals has been sanitized
CapitalsSanitized ==
    /\ Sanitized
    /\ \E i \in DOMAIN naming.raw : naming.raw[i] \in Range(UpperChars)

\* the form C14 gives to an over-long cleaned name b
HashedForm(b) == SubSeq(b, 1, 8) \o <<"-">> \o SubSeq(sha1Hex(b), 1, 6)

OverLong(raw) == Len(keepIfNameBytes(raw)) > 15

\* C14: a raw name whose cleaned form exceeds 15 bytes is given the first 8
\* characters of that form, a hyphen and the first 6 hex digits of its SHA-1,
\* 15 bytes in all; two distinct over-long names get the same interface name
\* only if their first 8 characters and their hash prefixes coincide
C14_HashedWhenOverLong ==
    (Sanitized /\ OverLong(naming.raw)) =>
        /\ naming.link = HashedForm(keepIfNameBytes(naming.raw))
        /\ Len(naming.link) = 15
        /\ (/\ OverLong(naming.other)
            /\ keepIfNameBytes(naming.other) # keepIfNameBytes(naming.raw)
            /\ naming.otherLink = naming.link)
           => /\ SubSeq(keepIfNameBytes(naming.other), 1, 8)
                   = SubSeq(keepIfNameBytes(naming.raw), 1, 8)
              /\ SubSeq(sha1Hex(keepIfNameBytes(naming.other)), 1, 6)
                   = SubSeq(sha1Hex(keepIfNameBytes(naming.raw)), 1, 6)

\* the same, for the revision that hashes
HashedWhenOverLong_A == rev = "A" => C14_HashedWhenOverLong

\* what the truncating revision returns for an over-long name
TruncatedWhenOverLong_B ==
    (rev = "B" /\ Sanitized /\ OverLong(naming.raw)) =>
        naming.link = ToLower(SubSeq(keepIfNameBytes(naming.raw), 1, 15))

\* two distinct over-long names have been sanitized
OverLongSanitized ==
    /\ Sanitized
    /\ OverLong(naming.raw)
    /\ OverLong(naming.other)
    /\ keepIfNameBytes(naming.other) # keepIfNameBytes(naming.raw)

\* two distinct over-long names were given the same interface name
OverLongCollide == OverLongSanitized /\ naming.otherLink = naming.link

\* C15: the host-side name vxlanHostSideLinkName returns (the revision that
\* has the function) is at most 12 bytes, so that "vx-" and the name fit the
\* 15 bytes of an interface name, and it is "<node>-<link>" itself when that
\* is at most 12 bytes
C15_HostSideFits ==
    (naming.pc = "named" /\ rev = "B") =>
        /\ ByteLen(naming.hostSide) <= 12
        /\ ByteLen(vxlanIfPrefix \o naming.hostSide) <= linuxIfNameMaxLen
        /\ ByteLen(naming.node) + 1 + ByteLen(naming.link) <= 12
           => naming.hostSide = naming.node \o <<"-">> \o naming.link

\* a node and link name that do not fit together were named
C15_Witness ==
    /\ naming.pc = "named"
    /\ rev = "B"
    /\ ByteLen(naming.node) + 1 + ByteLen(naming.link) > 12
    /\ ByteLen(naming.hostSide) = 12

\* the revision without the function: the host side is "<node>-<link>"
\* whatever its length
HostSideByRevisionA ==
    (naming.pc = "named" /\ rev = "A") =>
        naming.hostSide = naming.node \o <<"-">> \o naming.link
HostSideTooLongInRevisionA ==
    /\ naming.pc = "named"
    /\ rev = "A"
    /\ ByteLen(vxlanIfPrefix \o naming.hostSide) > linuxIfNameMaxLen

\* a node and link name that fit were named
HostSideUnchanged ==
    /\ naming.pc = "named"
    /\ ByteLen(naming.node) + 1 + ByteLen(naming.link) <= 12
    /\ naming.hostSide = naming.node \o <<"-">> \o naming.link

\* revision A has hashed a name of 66 bytes, two blocks of SHA-1, to the name
\* the program gives it
TwoBlockNameHashed_A ==
    /\ naming.pc = "sanitized"
    /\ rev = "A"
    /\ ByteLen(keepIfNameBytes(naming.raw)) = 66
    /\ naming.link = <<"H","u","n","d","r","e","d","G","-","a","5","1","a","b","0">>

\* a node and link name of at most 12 runes and more than 12 bytes were named:
\* the limit counts bytes
HostSideHashedByBytes ==
    /\ naming.pc = "named"
    /\ rev = "B"
    /\ Len(naming.node) + 1 + Len(naming.link) <= 12
    /\ naming.hostSide # naming.node \o <<"-">> \o naming.link
    /\ ByteLen(naming.hostSide) = 12

-----------------------------------------------------------------------------
(* Properties of the NetworkAttachmentDefinition reconciler *)

\* the names <name>-l<i>, i an index of a link list of some node's config
DesiredNADs(configs) ==
    { nadName(configs[l[1]].Name, l[2]) :
        l \in { k \in (DOMAIN configs) \X (0..MaxLinks) : k[2] < configs[k[1]].Links } }

\* C16: the names reported missing are the desired names <name>-l<i> that no
\* existing NAD bears, and the NADs reported extra are the existing ones whose
\* name is not a desired name
C16_DesiredNADs ==
    ctrl.pc = "resolved" =>
        /\ Range(ctrl.differ.Missing) = DesiredNADs(ctrl.configs) \ ctrl.owned
        /\ Range(ctrl.differ.Extra) = ctrl.owned \ DesiredNADs(ctrl.configs)
        /\ ctrl.differ.Current = ctrl.owned

\* two node configs with links, one NAD to create, one to keep, one to delete
C16_Witness ==
    /\ ctrl.pc = "resolved"
    /\ \E n, m \in DOMAIN ctrl.configs :
         n # m /\ ctrl.configs[n].Links > 0 /\ ctrl.configs[m].Links > 0
    /\ ctrl.differ.Missing # <<>>
    /\ ctrl.differ.Extra # <<>>
    /\ ctrl.owned \cap DesiredNADs(ctrl.configs) # {}

-----------------------------------------------------------------------------
(* Properties of the NOS container *)

Rendered == overrides.pc \in {"rendered", "contained"}

\* the env gives name the value: an entry of the name exists, and every entry
\* of the name has the value
EnvHas(env, name, value) ==
    /\ \E i \in DOMAIN env : env[i].Name = name
    /\ \A i \in DOMAIN env : env[i].Name = name => env[i].Value = value

\* the INTFTYPE C17 expects: the node's own value unless blank or absent
OwnIntfType(envMap) ==
    IF <<"INTFTYPE">> \in DOMAIN envMap /\ TrimSpace(envMap[<<"INTFTYPE">>]) # <<>>
    THEN envMap[<<"INTFTYPE">>] ELSE <<"eth">>

\* C17: the final env of a cEOS or EOS node has the seven enforced values, has
\* INTFTYPE at the node's own non-blank value or else at "eth", and has no
\* CLAB_MGMT_VRF entry, whatever env map the node declares
C17_CeosEnv ==
    (Rendered /\ ToLower(overrides.in.Kind) \in {KindCeos, KindEos}) =>
        /\ EnvHas(overrides.first.Env, <<"CEOS">>, <<"1">>)
        /\ EnvHas(overrides.first.Env, <<"EOS_PLATFORM">>, <<"ceoslab">>)
        /\ EnvHas(overrides.first.Env, <<"container">>, <<"docker">>)
        /\ EnvHas(overrides.first.Env, <<"ETBA">>, <<"1">>)
        /\ EnvHas(overrides.first.Env, <<"SKIP_ZEROTOUCH_BARRIER_IN_SYSDBINIT">>, <<"1">>)
        /\ EnvHas(overrides.first.Env, <<"MAPETH0">>, <<"1">>)
        /\ EnvHas(overrides.first.Env, <<"MGMT_INTF">>, <<"eth0">>)
        /\ EnvHas(overrides.first.Env, <<"INTFTYPE">>, OwnIntfType(overrides.in.Env))
        /\ \A i \in DOMAIN overrides.first.Env :
             overrides.first.Env[i].Name # <<"CLAB_MGMT_VRF">>

\* no two keys of the env map are one name once trimmed
KeysDistinctTrimmed(envMap) ==
    \A k1, k2 \in DOMAIN envMap : TrimSpace(k1) = TrimSpace(k2) => k1 = k2

\* what holds of every env map: an entry with the enforced value exists for
\* each of the seven names, INTFTYPE has the node's trimmed value or "eth", and
\* no entry is named CLAB_MGMT_VRF, trimmed or not
CeosEnvEnforced ==
    (Rendered /\ ToLower(overrides.in.Kind) \in {KindCeos, KindEos}) =>
        /\ \A e \in Range(ceosEnv(ceosIntfType(overrides.first.Env))) :
             \E i \in DOMAIN overrides.first.Env : overrides.first.Env[i] = e
        /\ EnvHas(overrides.first.Env, <<"INTFTYPE">>,
                  IF OwnIntfType(overrides.in.Env) = <<"eth">> THEN <<"eth">>
                  ELSE TrimSpace(overrides.in.Env[<<"INTFTYPE">>]))
        /\ \A i \in DOMAIN overrides.first.Env :
             TrimSpace(overrides.first.Env[i].Name) # <<"CLAB_MGMT_VRF">>

\* C17 for the env maps whose keys stay distinct when trimmed and whose INTFTYPE
\* has no surrounding white space
CeosEnvWhenKeysDistinct ==
    (/\ KeysDistinctTrimmed(overrides.in.Env)
     /\ OwnIntfType(overrides.in.Env) = TrimSpace(OwnIntfType(overrides.in.Env)))
    => C17_CeosEnv

\* a cEOS node that declares CEOS, or INTFTYPE, or CLAB_MGMT_VRF was rendered
CeosEnvDeclared ==
    /\ Rendered
    /\ DOMAIN overrides.in.Env \cap {<<"CEOS">>, <<"INTFTYPE">>, <<"CLAB_MGMT_VRF">>} # {}
    /\ KeysDistinctTrimmed(overrides.in.Env)

\* the cEOS/EOS handler applies to the kind: the switch of
\* ApplyNativeModeOverrides, on the trimmed and lowercased kind
CeosHandlerApplies(kind) == ToLower(TrimSpace(kind)) \in {KindCeos, KindEos}

\* the handler has acted on the NOS container: its tmpfs mounts are there
CeosHandlerActed(d) == \E i \in DOMAIN d.Mounts : d.Mounts[i].MountPath = <<"/", "run">>

\* C18: a native-mode node the cEOS/EOS handler applies to has process-namespace
\* sharing disabled in its pod template, a native-mode node of another kind has
\* it enabled
C18_PidNamespace ==
    (overrides.pc = "deployed" /\ overrides.native) =>
        IF CeosHandlerApplies(overrides.in.Kind)
        THEN overrides.share = "nil"
        ELSE overrides.share = "true"

\* the handler acts on exactly the kinds it applies to
HandlerActsWhereItApplies ==
    (overrides.pc = "deployed" /\ overrides.native) =>
        (CeosHandlerActed(overrides.first) <=> CeosHandlerApplies(overrides.in.Kind))

\* C18 for the kinds spelled in lower case
PidNamespaceLowerCase ==
    overrides.in.Kind = ToLower(overrides.in.Kind) => C18_PidNamespace

\* a native-mode cEOS node was rendered with the handler's mounts
PidNamespaceCeos ==
    /\ overrides.pc = "deployed"
    /\ overrides.native
    /\ overrides.in.Kind = KindCeos
    /\ CeosHandlerActed(overrides.first)
    /\ overrides.share = "nil"

\* a native-mode node has the handler's mounts and shares the process namespace
HandledAndShared ==
    /\ overrides.pc = "deployed"
    /\ overrides.native
    /\ CeosHandlerActed(overrides.first)
    /\ overrides.share = "true"

-----------------------------------------------------------------------------
(* Properties of the vrnetlab interface count *)

\* the node is one the vrnetlab-QEMU handler applies to
VrnetlabQemuNode(in) ==
    /\ imageHasDir(in.NodeImage, Vrnetlab)
    /\ ToLower(TrimSpace(in.Kind)) \notin {KindCiscoIol, KindCiscoIoll2}

\* the interface names of the node's own link endpoints
OwnIfNames(in) ==
    { TrimSpace(AfterByte(TrimSpace(ep), ":")) :
        ep \in { e \in UNION { Range(l) : l \in Range(in.Links) } :
                   /\ IndexByte(TrimSpace(e), ":") > 0
                   /\ TrimSpace(BeforeByte(TrimSpace(e), ":")) = in.NodeName } }

\* the N > 0 such that an own endpoint is named ethN, N written in plain decimal
NamedEth(in) ==
    { digitsValue(SubSeq(n, 4, Len(n))) :
        n \in { m \in OwnIfNames(in) :
                  /\ HasPrefix(m, EthStr)
                  /\ IsDigits(SubSeq(m, 4, Len(m)))
                  /\ m[4] # "0" } }

\* the N > 0 such that an own endpoint is named ethN once the name is cut at
\* its first ".", N written in decimal with leading zeros or a "+" allowed
Numeral(s) == IF s # <<>> /\ s[1] = "+" THEN Tail(s) ELSE s
NamedEthParent(in) ==
    { digitsValue(Numeral(SubSeq(BeforeByte(n, "."), 4, Len(BeforeByte(n, "."))))) :
        n \in { m \in OwnIfNames(in) :
                  /\ HasPrefix(m, EthStr)
                  /\ IsDigits(Numeral(SubSeq(BeforeByte(m, "."), 4, Len(BeforeByte(m, "."))))) } }
      \ {0}

\* the CLAB_INTFS values of an env
ClabIntfsOf(env) == { env[i].Value : i \in { j \in DOMAIN env : env[j].Name = <<"CLAB_INTFS">> } }

\* what the node's env map declares for CLAB_INTFS
DeclaredIntfs(in) ==
    IF <<"CLAB_INTFS">> \in DOMAIN in.Env THEN {in.Env[<<"CLAB_INTFS">>]} ELSE {}

\* CLAB_INTFS is the largest of the numbers when there is one, and is left as
\* the node declares it (unset, when it declares none) otherwise
IntfsFrom(numbers) ==
    IF numbers = {}
    THEN ClabIntfsOf(overrides.first.Env) = DeclaredIntfs(overrides.in)
    ELSE ClabIntfsOf(overrides.first.Env) =
           { itoaBytes(CHOOSE n \in numbers : \A m \in numbers : m <= n) }

\* C20: for a vrnetlab-QEMU node CLAB_INTFS is the largest N > 0 such that one
\* of the node's own link endpoints is named ethN, and is left unset when the
\* node has no such endpoint; the endpoints of other nodes never contribute
C20_ClabIntfs ==
    (overrides.pc = "rendered" /\ VrnetlabQemuNode(overrides.in)) =>
        IntfsFrom(NamedEth(overrides.in))

\* C20 as the code has it: an endpoint counts by its name cut at the first
\* ".", with the number read as strconv.Atoi reads it
ClabIntfsByParentName ==
    (overrides.pc = "rendered" /\ VrnetlabQemuNode(overrides.in)) =>
        IntfsFrom(NamedEthParent(overrides.in))

\* a vrnetlab-QEMU node whose only own ethN endpoint is a sub-interface got
\* CLAB_INTFS from it, with another node's higher index on the same link
IntfsFromSubInterface ==
    /\ overrides.pc = "rendered"
    /\ VrnetlabQemuNode(overrides.in)
    /\ overrides.in.Links = << <<Endpoint(NodeR1, <<"e","t","h","7",".","1","0","0">>), FarSideR2>> >>
    /\ ClabIntfsOf(overrides.first.Env) = { <<"7">> }

\* a vrnetlab-QEMU node with two own endpoints got the larger index
IntfsLargest ==
    /\ overrides.pc = "rendered"
    /\ VrnetlabQemuNode(overrides.in)
    /\ overrides.in.Links = << <<Endpoint(NodeR1, <<"e","t","h","5">>), FarSideR2>>,
                               <<FarSideR11, Endpoint(NodeR1, <<"e","t","h","1","2">>)>> >>
    /\ ClabIntfsOf(overrides.first.Env) = { <<"1","2">> }

\* a vrnetlab-QEMU node with no own ethN endpoint has no CLAB_INTFS
IntfsUnset ==
    /\ overrides.pc = "rendered"
    /\ VrnetlabQemuNode(overrides.in)
    /\ overrides.in.Links = << <<Endpoint(NodeR1, <<"E","t","h","e","r","n","e","t","1">>), FarSideR2>> >>
    /\ ClabIntfsOf(overrides.first.Env) = {}

-----------------------------------------------------------------------------
(* Properties of the command override *)

\* the kind handlers that set a command: cEOS (and EOS) always, Cisco IOL
\* always, linux when the node has a cmd or the image is python or alpine
HandlerSetsCommand(in) ==
    \/ ToLower(in.Kind) \in {KindCeos, KindEos, KindCiscoIol}
    \/ /\ ToLower(in.Kind) = KindLinux
       /\ TrimSpace(in.Cmd) # <<>> \/ imageHas(in.NodeImage, Alpine)

\* the command made of the node's cmd, or of its entrypoint when the cmd is blank
CmdOrEntrypoint(in) ==
    IF TrimSpace(in.Cmd) # <<>> THEN <<"sh", "-c", StringOf(TrimSpace(in.Cmd))>>
    ELSE IF TrimSpace(in.Entrypoint) # <<>>
    THEN <<"sh", "-c", StringOf(TrimSpace(in.Entrypoint))>>
    ELSE <<>>

\* the command of a cEOS or IOL handler
IsHandlerCommand(command) == Len(command) = 3 /\ command[1] = "bash"

\* C19: the node's cmd or entrypoint becomes the command of the NOS container,
\* "sh -c <cmd>" with the cmd before the entrypoint, only when no kind handler
\* has set a command; a cEOS or Cisco IOL node keeps the command of its handler
\* even when it carries a cmd
C19_CommandOverride ==
    Rendered =>
        /\ ~HandlerSetsCommand(overrides.in) =>
              overrides.first.Command = CmdOrEntrypoint(overrides.in)
        /\ ToLower(overrides.in.Kind) \in {KindCeos, KindEos, KindCiscoIol} =>
              IsHandlerCommand(overrides.first.Command)

\* C19 holds of the nativemode package
CommandOverrideInPackage == overrides.pc = "rendered" => C19_CommandOverride

\* renderDeploymentContainer keeps the handler's command of a cEOS or IOL node
\* only when the node carries neither a cmd nor an entrypoint
CommandOverrideInline ==
    (overrides.pc = "contained"
       /\ ToLower(overrides.in.Kind) \in {KindCeos, KindEos, KindCiscoIol}) =>
        (IsHandlerCommand(overrides.first.Command)
           <=> TrimSpace(overrides.in.Cmd) = <<>> /\ TrimSpace(overrides.in.Entrypoint) = <<>>)

\* the package kept the IOL handler's command on a node that carries a cmd
IOLCommandKept ==
    /\ overrides.pc = "rendered"
    /\ overrides.in.Kind = KindCiscoIol
    /\ overrides.in.Cmd = <<"run.sh">>
    /\ overrides.first.Command = <<"bash", "-lc", "iol-bootstrap.sh">>
    /\ EnvHas(overrides.first.Env, <<"IOL_PID">>, <<"7","5","4">>)

\* renderDeploymentContainer replaced the cEOS handler's command by the cmd
CeosCommandReplaced ==
    /\ overrides.pc = "contained"
    /\ overrides.in.Kind = KindCeos
    /\ overrides.in.Cmd = <<"run.sh">>
    /\ overrides.first.Command = <<"sh", "-c", "run.sh">>

\* renderDeploymentContainer replaced the IOL handler's command by the cmd
IOLCommandReplaced ==
    /\ overrides.pc = "contained"
    /\ overrides.in.Kind = KindCiscoIol
    /\ overrides.in.Cmd = <<"run.sh">>
    /\ overrides.first.Command = <<"sh", "-c", "run.sh">>
    /\ EnvHas(overrides.first.Env, <<"IOL_PID">>, <<"2","4","2">>)

\* a node without a kind handler got its entrypoint as the command
EntrypointBecameCommand ==
    /\ Rendered
    /\ overrides.in.Kind = KindSrl
    /\ TrimSpace(overrides.in.Cmd) = <<>>
    /\ overrides.first.Command = <<"sh", "-c", "/entry.sh">>

-----------------------------------------------------------------------------
(* Properties of the IOL PID *)

\* the PIDs of FNV-1a on 32 bits, int((h >> 16) % 1023) + 1, for the seeds of
\* PidInputs
KnownPID(seed) ==
    CASE seed = "lab:r1" -> 754
      [] seed = "lab:r2" -> 1010
      [] seed = "lab:Spine-01" -> 648
      [] seed = "lab:core-router-1" -> 979
      [] seed = "t1:r1" -> 46
      [] seed = "t1:r2" -> 301
      [] seed = "t1:Spine-01" -> 516
      [] seed = "t1:core-router-1" -> 629
      [] seed = "dc-fabric.prod_01:r1" -> 738
      [] seed = "dc-fabric.prod_01:r2" -> 483
      [] seed = "dc-fabric.prod_01:Spine-01" -> 918
      [] seed = "dc-fabric.prod_01:core-router-1" -> 872

\* "topology:node" of the node being rendered
SeedOf(in) == StringOf(TrimSpace(in.Topology) \o <<":">> \o TrimSpace(in.NodeName))

\* n in five decimal digits
FiveDigits(n) ==
    <<DigitChars[((n \div 10000) % 10) + 1], DigitChars[((n \div 1000) % 10) + 1],
      DigitChars[((n \div 100) % 10) + 1], DigitChars[((n \div 10) % 10) + 1],
      DigitChars[(n % 10) + 1]>>

\* the env carries IOL_PID = pid and SKYFORGE_IOL_NVRAM = nvram_<pid in five digits>
HasPidAndNvram(env, pid) ==
    /\ EnvHas(env, <<"IOL_PID">>, itoaBytes(pid))
    /\ EnvHas(env, <<"SKYFORGE_IOL_NVRAM">>, <<"n","v","r","a","m","_">> \o FiveDigits(pid))

\* C21: the IOL handler gives every (topology, node) pair an IOL_PID in 1..1023
\* that is the FNV-32 PID of "topology:node", a second rendering of the pair
\* gives the same PID, and SKYFORGE_IOL_NVRAM is "nvram_" and the PID in five
\* digits
C21_IOLPid ==
    /\ overrides.pc \in {"rendered", "rerendered"} =>
          /\ KnownPID(SeedOf(overrides.in)) \in 1..1023
          /\ HasPidAndNvram(overrides.first.Env, KnownPID(SeedOf(overrides.in)))
    /\ overrides.pc = "rerendered" =>
          HasPidAndNvram(overrides.again.Env, KnownPID(SeedOf(overrides.in)))

\* a node was rendered twice with a PID below 100, its env map declaring
\* another PID
C21_Witness ==
    /\ overrides.pc = "rerendered"
    /\ overrides.in.Topology = <<"t","1">>
    /\ overrides.in.NodeName = NodeR1
    /\ <<"IOL_PID">> \in DOMAIN overrides.in.Env
    /\ EnvHas(overrides.again.Env, <<"IOL_PID">>, <<"4","6">>)
    /\ EnvHas(overrides.again.Env, <<"SKYFORGE_IOL_NVRAM">>, <<"n","v","r","a","m","_","0","0","0","4","6">>)

-----------------------------------------------------------------------------
(* Properties of the startup-config mount *)

\* a Cisco IOSv node
IOSvNode(in) == ToLower(TrimSpace(in.Kind)) \in {KindCiscoVios, KindCiscoViosl2}

\* the entries of the files-from-ConfigMap list whose file path is the
\* startup-config path, with a ConfigMap name and path that are not blank
StartupConfigEntries(in) ==
    { i \in DOMAIN in.Files :
        /\ TrimSpace(in.Files[i].ConfigMapName) # <<>>
        /\ TrimSpace(in.Files[i].ConfigMapPath) # <<>>
        /\ TrimSpace(in.Files[i].FilePath) = TrimSpace(in.StartupConfig) }

\* the mounts of the container at /config/startup-config.cfg
ConfigMounts(d) == { i \in DOMAIN d.Mounts : d.Mounts[i].MountPath = VrnetlabStartupConfigMount }

\* the node declares a startup-config that the list has an entry for
HasStartupConfigEntry(in) ==
    /\ IOSvNode(in) \/ VrnetlabQemuNode(in)
    /\ TrimSpace(in.StartupConfig) # <<>>
    /\ StartupConfigEntries(in) # {}

\* exactly one mount at /config/startup-config.cfg, read-only, with the
\* ConfigMap path of an entry as its sub-path
OneConfigMount(d, in) ==
    /\ Cardinality(ConfigMounts(d)) = 1
    /\ \A i \in ConfigMounts(d) :
          /\ d.Mounts[i].ReadOnly
          /\ \E j \in StartupConfigEntries(in) :
                d.Mounts[i].SubPath = in.Files[j].ConfigMapPath

\* a bind of the node is mounted at /config/startup-config.cfg
BindAtConfigMount(in) ==
    \E i \in DOMAIN in.Binds :
        /\ in.Binds[i].container = VrnetlabStartupConfigMount
        /\ in.Binds[i].host # ""
        /\ in.Binds[i].absolute

\* C22: an IOSv or vrnetlab-QEMU node that declares a startup-config the list
\* has an entry for ends up with exactly one mount at
\* /config/startup-config.cfg, read-only, its sub-path the entry's ConfigMap path
C22_StartupConfigMount ==
    (overrides.pc = "rendered" /\ HasStartupConfigEntry(overrides.in)) =>
        OneConfigMount(overrides.first, overrides.in)

\* C22 for the nodes that bind nothing at /config/startup-config.cfg; a bind
\* at that path is kept as the only mount there
StartupConfigMountUnlessBound ==
    (overrides.pc = "rendered" /\ HasStartupConfigEntry(overrides.in)) =>
        IF BindAtConfigMount(overrides.in)
        THEN /\ Cardinality(ConfigMounts(overrides.first)) = 1
             /\ \A i \in ConfigMounts(overrides.first) : overrides.first.Mounts[i].SubPath = <<>>
        ELSE OneConfigMount(overrides.first, overrides.in)

\* an IOSv node with a vrnetlab image, which both handlers apply to, has the
\* second matching entry mounted, the first two having a blank name or path
StartupConfigMounted ==
    /\ overrides.pc = "rendered"
    /\ overrides.in.Kind = KindCiscoVios
    /\ VrnetlabQemuNode(overrides.in)
    /\ Len(overrides.in.Files) = 3
    /\ ~BindAtConfigMount(overrides.in)
    /\ Cardinality(ConfigMounts(overrides.first)) = 1
    /\ \A i \in ConfigMounts(overrides.first) :
          overrides.first.Mounts[i].SubPath = <<"r1-b.cfg">> /\ overrides.first.Mounts[i].ReadOnly

\* a node that declares a startup-config and binds a host file at the mount
\* path keeps the bind, which is not read-only
BindKeptAtConfigMount ==
    /\ overrides.pc = "rendered"
    /\ HasStartupConfigEntry(overrides.in)
    /\ BindAtConfigMount(overrides.in)
    /\ \A i \in ConfigMounts(overrides.first) : ~overrides.first.Mounts[i].ReadOnly

-----------------------------------------------------------------------------
(* Properties of the native-mode flag *)

\* the deployment is rendered as a native-mode one: the NOS container is
\* rendered next to the launcher, and the pod shares the process namespace
\* unless the node is a cEOS one
RenderedNative ==
    /\ overrides.first =
          [renderNosContainer(
               renderDeploymentContainer(podDep(overrides.in, overrides.Secrets),
                                         overrides.in, <<>>, "literal"),
               overrides.PrivilegedLauncher)
             EXCEPT !.Volumes = renderPodVolumes(@, overrides.Persistence)]
    /\ overrides.share = IF overrides.in.Kind \in {KindCeos, KindEos} THEN "nil" ELSE "true"

\* the deployment is rendered without the NOS container and the shared process
\* namespace
RenderedClassic ==
    /\ overrides.first =
          [FreshDep EXCEPT !.Volumes = renderPodVolumes(
                               renderDeploymentVolumes(overrides.in, overrides.Secrets),
                               overrides.Persistence)]
    /\ overrides.share = "nil"

\* C23: ResolveNativeMode is true for a topology whose native-mode flag is not
\* set, and is the flag's own value when the flag is set to true or to false
C23_ResolveNativeMode ==
    overrides.pc = "deployed" =>
        /\ overrides.NativeMode = "nil" => overrides.native
        /\ overrides.NativeMode = "true" => overrides.native
        /\ overrides.NativeMode = "false" => ~overrides.native
        /\ DOMAIN overrides.in.Env = {} =>
              IF overrides.NativeMode = "false" THEN RenderedClassic ELSE RenderedNative

\* a srl node of a topology that does not set the flag was rendered as a
\* native-mode one
C23_Witness ==
    /\ overrides.pc = "deployed"
    /\ overrides.NativeMode = "nil"
    /\ overrides.in.Kind = KindSrl
    /\ DOMAIN overrides.in.Env = {}
    /\ overrides.native
    /\ overrides.share = "true"

-----------------------------------------------------------------------------
(* Properties of the manager's map and of the kernel's VXLAN interfaces *)

\* the tunnel list the last handler was given
AppliedList == IF lastOp = "run" THEN initialTunnels ELSE desired

\* C24: after Run and any number of updateVxlanTunnels calls that returned,
\* currentTunnels holds one entry per local interface of the list applied last,
\* the tunnel of that list (the one last created for the interface).
C24_CurrentTunnelsFollow ==
    (phase = "running" /\ lastOp \in {"run", "update"}) =>
        ListEqualsMap(AppliedList, currentTunnels)

\* what the code keeps: the map is written by Run alone, so it holds the
\* initial tunnels whatever updateVxlanTunnels has applied since
CurrentTunnelsAreInitial ==
    phase = "running" => ListEqualsMap(initialTunnels, currentTunnels)

\* an update that returned and left the map without the tunnel it created
StaleCurrentTunnels ==
    /\ lastOp = "update"
    /\ phase = "running"
    /\ \E i \in DOMAIN desired :
          /\ desired[i].LocalInterface \notin DOMAIN currentTunnels
          /\ \E k \in CmdsAt("vxlan-create", desired[i].LocalInterface) : cmdLog[k].ok

\* the VXLAN interface the create path makes for a local interface
VxlanIfOf(ifc) == vxlanIfPrefix \o createHostSide(rev, ifc)

\* the last handler created the tunnel of the interface
CreatedByLastCall(ifc) == \E k \in CmdsAt("vxlan-create", ifc) : cmdLog[k].ok

\* C25: a tunnel created by an updateVxlanTunnels call whose local interface is
\* absent from the list of the next call that returns has its VXLAN interface
\* deleted by that call.
C25_RemovedTunnelDeleted ==
    [][(lastOp = "update" /\ lastOp' = "update" /\ phase' = "running") =>
          \A i \in IfNames :
              (CreatedByLastCall(i) /\ i \notin IfsOf(desired')) =>
                  VxlanIfOf(i) \notin vxlanIfs']_vars

\* what the code does: revision B deletes the interface of a removed tunnel
\* when the tunnel was one of the initial ones
InitialTunnelDeleted ==
    (rev = "B" /\ lastOp = "update" /\ phase = "running") =>
        \A i \in DOMAIN currentTunnels \ IfsOf(desired) : VxlanIfOf(i) \notin vxlanIfs

\* a VXLAN interface made by an update is in the kernel after a later update
\* whose list has no tunnel for its local interface
VxlanIfOutlivesTunnel ==
    /\ lastOp = "update"
    /\ phase = "running"
    /\ \E i \in IfNames :
          /\ i \notin IfsOf(desired)
          /\ i \notin DOMAIN currentTunnels
          /\ VxlanIfOf(i) \in vxlanIfs

-----------------------------------------------------------------------------
(* Properties of the create path *)

\* the commands of the create path whose failure the path returns
FatalCreateOps == {"resolve", "link-add", "link-up", "vxlan-create"}

\* the log positions of a pre-create delete that failed
FailedPreDeletes ==
    { k \in DOMAIN cmdLog : cmdLog[k].step = "precreate" /\ ~cmdLog[k].ok }

\* the log positions of a failed resolution, pod-link command or VXLAN create
FailedCreateSteps ==
    { k \in DOMAIN cmdLog :
        cmdLog[k].step = "create" /\ cmdLog[k].op \in FatalCreateOps /\ ~cmdLog[k].ok }

\* the tunnels a handler was to create, in order: all of Run's list, the
\* tunnels to re-create of an update
ToCreate ==
    IF lastOp = "run" THEN initialTunnels ELSE tunnelsToReCreate(prevTunnels, desired)

\* C26: a pre-create delete that fails is followed by the next step of the same
\* tunnel's create path (the pod-link check or the VXLAN create) and does not
\* end the launcher: the path goes on to the tunnel's VXLAN create unless a
\* pod-link command fails before it; a failed resolution, pod-link command or
\* VXLAN create is the last command of the launcher, which is then dead, in
\* Run as in an update.
C26_CreatePathFailures ==
    lastOp \in {"run", "update"} =>
        /\ \A k \in FailedPreDeletes :
              /\ k < Len(cmdLog)
              /\ cmdLog[k + 1].ifc = cmdLog[k].ifc
              /\ cmdLog[k + 1].step = "create"
              /\ cmdLog[k + 1].op \in {"link-show", "vxlan-create"}
              /\ \E j \in DOMAIN cmdLog :
                    /\ j > k
                    /\ cmdLog[j].ifc = cmdLog[k].ifc
                    /\ cmdLog[j].op = "vxlan-create" \/ j \in FailedCreateSteps
        /\ \A k \in FailedCreateSteps : phase = "fatal" /\ k = Len(cmdLog)
        /\ (phase = "fatal" /\ cmdLog[Len(cmdLog)].step = "create") =>
              Len(cmdLog) \in FailedCreateSteps
        /\ (phase = "running" /\ lastOp = "run") =>
              \A i \in IfsOf(initialTunnels) : CreatedByLastCall(i)

\* an update met a failing pre-create delete and created the tunnel all the same
C26_Witness ==
    /\ lastOp = "update"
    /\ phase = "running"
    /\ FailedPreDeletes # {}
    /\ \E k \in FailedPreDeletes : CreatedByLastCall(cmdLog[k].ifc)

\* Run died at the first of two tunnels and left the second untouched
RunDiedAtFirstTunnel ==
    /\ lastOp = "run"
    /\ phase = "fatal"
    /\ Len(initialTunnels) = 2
    /\ FailedCreateSteps # {}
    /\ CmdsAt("vxlan-create", initialTunnels[2].LocalInterface) = {}
    /\ CmdsAt("vxlan-delete", initialTunnels[2].LocalInterface) = {}

\* both pre-create deletes of one Run failed and both tunnels were created
RunMetTwoFailedPreDeletes ==
    /\ lastOp = "run"
    /\ phase = "running"
    /\ Cardinality(FailedPreDeletes) = 2
    /\ \A k \in FailedPreDeletes : CreatedByLastCall(cmdLog[k].ifc)

\* a pre-create delete failed and the create of the same tunnel failed after
\* it: the launcher is dead
PreDeleteAndCreateFailed ==
    /\ lastOp \in {"run", "update"}
    /\ phase = "fatal"
    /\ \E k \in FailedPreDeletes :
          /\ Len(cmdLog) \in FailedCreateSteps
          /\ cmdLog[Len(cmdLog)].ifc = cmdLog[k].ifc
          /\ cmdLog[Len(cmdLog)].op = "vxlan-create"

\* an update met two failing pre-create deletes and returned
UpdateMetTwoFailedPreDeletes ==
    /\ lastOp = "update"
    /\ phase = "running"
    /\ rev = "B" /\ ~nativeMode
    /\ Cardinality(FailedPreDeletes) = 2

\* an update died at the first of two tunnels it was to create
UpdateDiedAtFirstTunnel ==
    /\ lastOp = "update"
    /\ phase = "fatal"
    /\ Len(ToCreate) = 2
    /\ FailedCreateSteps # {}
    /\ CmdsAt("vxlan-create", ToCreate[2].LocalInterface) = {}

-----------------------------------------------------------------------------
(* Properties of a launcher that is started again *)

\* the pod-link step is part of the create path
PodLinkStep == rev = "A" \/ nativeMode

\* what an uninterrupted Run leaves for a tunnel: both veth ends up and the
\* link's VXLAN interface
TunnelInPlace(ifc) ==
    /\ createHostSide(rev, ifc) \in linksUp
    /\ createLink(rev, ifc) \in linksUp
    /\ VxlanIfOf(ifc) \in vxlanIfs

\* the kernel holds one VXLAN interface per initial tunnel and no other
OneVxlanIfPerTunnel == vxlanIfs = { VxlanIfOf(i) : i \in IfsOf(initialTunnels) }

\* C27: a Run that returns, the first as well as one that follows the death of
\* the launcher at any step of the create path, leaves for every tunnel the
\* host-side and the container-side veth end up and a single VXLAN interface.
C27_RecoveryIdempotent ==
    (phase = "running" /\ lastOp = "run" /\ PodLinkStep) =>
        /\ \A i \in IfsOf(initialTunnels) : TunnelInPlace(i)
        /\ OneVxlanIfPerTunnel

\* the part that holds: the VXLAN interfaces after a Run that returns are those
\* of the tunnels, whatever an earlier run left behind
VxlanRecoveryIdempotent ==
    (phase = "running" /\ lastOp = "run") => OneVxlanIfPerTunnel

\* a first Run that returns leaves every tunnel in place
FirstRunInPlace ==
    (phase = "running" /\ lastOp = "run" /\ launcherOp # "restart" /\ PodLinkStep) =>
        \A i \in IfsOf(initialTunnels) : TunnelInPlace(i)

\* a Run after a restart returned and a veth end of a tunnel is down
RecoveredWithLinkDown ==
    /\ launcherOp = "restart"
    /\ phase = "running"
    /\ lastOp = "run"
    /\ \E i \in IfsOf(initialTunnels) :
          /\ createHostSide(rev, i) \in links
          /\ createHostSide(rev, i) \notin linksUp
          /\ VxlanIfOf(i) \in vxlanIfs

-----------------------------------------------------------------------------
(* Properties of the pod-link step *)

\* the log positions of the check of a tunnel's host-side link
HostSideShows ==
    { k \in DOMAIN cmdLog :
        cmdLog[k].op = "link-show" /\ cmdLog[k].arg = createHostSide(rev, cmdLog[k].ifc) }

\* the commands of the last handler for an interface that make or change a link
LinkChanges(ifc) ==
    { k \in DOMAIN cmdLog :
        cmdLog[k].ifc = ifc /\ cmdLog[k].op \in {"link-add", "link-up"} }

\* the command at position k of the log is op on arg
CmdIs(k, op, arg) ==
    k \in DOMAIN cmdLog /\ cmdLog[k].op = op /\ cmdLog[k].arg = arg

\* the pod-link step that starts at position k of the log found the host-side
\* link: it has issued nothing more, and the create command follows
FoundHostSide(k) ==
    /\ LinkChanges(cmdLog[k].ifc) = {}
    /\ CmdIs(k + 1, "vxlan-create", cmdLog[k].arg)

\* it found no host-side link and an interface of the bare link name: that
\* check is the last command, the launcher is dead, nothing was made
FoundBareName(k) ==
    /\ k + 1 = Len(cmdLog)
    /\ phase = "fatal"
    /\ LinkChanges(cmdLog[k].ifc) = {}
    /\ CmdsAt("vxlan-create", cmdLog[k].ifc) = {}
    /\ createHostSide(rev, cmdLog[k].ifc) \notin links
    /\ VxlanIfOf(cmdLog[k].ifc) \notin vxlanIfs

\* it found neither: the pair is added, then the host side and the container
\* side are set up, each command issued when the one before it succeeded
PairMade(k) ==
    /\ CmdIs(k + 2, "link-add", cmdLog[k].arg)
    /\ cmdLog[k + 2].ok =>
          /\ {cmdLog[k].arg, createLink(rev, cmdLog[k].ifc)} \subseteq links
          /\ CmdIs(k + 3, "link-up", cmdLog[k].arg)
          /\ cmdLog[k + 3].ok =>
                /\ CmdIs(k + 4, "link-up", createLink(rev, cmdLog[k].ifc))
                /\ cmdLog[k + 4].ok =>
                      {cmdLog[k].arg, createLink(rev, cmdLog[k].ifc)} \subseteq linksUp

\* C28: in native mode every VXLAN create is preceded by the check of the
\* host-side link; when the link exists nothing is made; when it does not and
\* an interface of the bare link name exists, the step fails and nothing is
\* made or changed; otherwise the pair is added and both ends are set up.
\* Outside native mode no command of the pod-link step is issued.
PodLinkEnsured ==
    /\ \A c \in DOMAIN cmdLog :
          cmdLog[c].op = "vxlan-create" =>
              \E k \in HostSideShows : k < c /\ cmdLog[k].ifc = cmdLog[c].ifc
    /\ \A k \in HostSideShows :
          IF cmdLog[k].ok THEN FoundHostSide(k)
          ELSE /\ CmdIs(k + 1, "link-show", createLink(rev, cmdLog[k].ifc))
               /\ IF cmdLog[k + 1].ok THEN FoundBareName(k) ELSE PairMade(k)
NoPodLinkStep ==
    \A k \in DOMAIN cmdLog : cmdLog[k].op \in {"resolve", "vxlan-delete", "vxlan-create"}
C28_PodLinkEnsure ==
    lastOp = "run" => IF nativeMode THEN PodLinkEnsured ELSE NoPodLinkStep

\* what holds: the create path that tests LAUNCHER_NATIVE_MODE (revision B)
\* does as C28 says; the create path without the test (revision A) ensures
\* the pair in every mode, as C28 says of native mode
PodLinkEnsureByRevision ==
    lastOp = "run" =>
        IF nativeMode \/ rev = "A" THEN PodLinkEnsured ELSE NoPodLinkStep

\* revision A made the pair of a tunnel outside native mode and set it up
PairMadeOutsideNativeMode ==
    /\ lastOp = "run"
    /\ ~nativeMode
    /\ rev = "A"
    /\ phase = "running"
    /\ \E k \in HostSideShows :
          /\ CmdIs(k + 4, "link-up", createLink(rev, cmdLog[k].ifc))
          /\ cmdLog[k + 4].ok
          /\ {cmdLog[k].arg, createLink(rev, cmdLog[k].ifc)} \subseteq linksUp

\* revision A outside native mode: Run died of an interface that has the bare
\* name of a tunnel's link
CollisionOutsideNativeMode ==
    /\ lastOp = "run"
    /\ ~nativeMode
    /\ rev = "A"
    /\ phase = "fatal"
    /\ \E k \in HostSideShows : ~cmdLog[k].ok /\ cmdLog[k + 1].ok /\ FoundBareName(k)

\* Run died of an interface that has the bare name of a tunnel's link
BareNameCollision ==
    /\ lastOp = "run"
    /\ nativeMode
    /\ phase = "fatal"
    /\ \E k \in HostSideShows :
          ~cmdLog[k].ok /\ CmdIs(k + 1, "link-show", createLink(rev, cmdLog[k].ifc))
                        /\ cmdLog[k + 1].ok
    /\ links # {}

\* Run found the host-side link of a tunnel in place
HostSideFound ==
    /\ lastOp = "run"
    /\ nativeMode
    /\ phase = "running"
    /\ \E k \in HostSideShows : cmdLog[k].ok

\* Run made the pair of a tunnel and set both ends up
PairMadeAndUp ==
    /\ lastOp = "run"
    /\ nativeMode
    /\ \E k \in HostSideShows : CmdIs(k + 4, "link-up", createLink(rev, cmdLog[k].ifc))

\* revision B created a tunnel outside native mode
CreatedWithoutPodLink ==
    /\ lastOp = "run"
    /\ ~nativeMode
    /\ rev = "B"
    /\ phase = "running"
    /\ vxlanIfs # {}

-----------------------------------------------------------------------------
(* Properties of the start of the watcher *)

\* C29: updateVxlanTunnels has run only when every initial tunnel was created
\* and stored in currentTunnels, and never while Run is in its loop.
C29_WatcherAfterRun ==
    /\ lastOp = "update" =>
          /\ ListEqualsMap(initialTunnels, currentTunnels)
          /\ \A i \in IfsOf(initialTunnels) : i \in DOMAIN prevTunnels
    /\ phase \in {"new", "loop"} => (lastOp # "update" /\ desired = <<>>)
    /\ (phase = "running" /\ lastOp = "run") =>
          /\ ListEqualsMap(initialTunnels, currentTunnels)
          /\ \A i \in IfsOf(initialTunnels) : CreatedByLastCall(i)

\* an update ran after a Run that created two tunnels
C29_Witness ==
    /\ lastOp = "update"
    /\ Len(initialTunnels) = 2
    /\ Cardinality(DOMAIN currentTunnels) = 2
    /\ desired # initialTunnels

\* Run is between its two iterations: one tunnel stored, no watcher yet
RunInLoop ==
    /\ phase = "loop"
    /\ Len(initialTunnels) = 2
    /\ Cardinality(DOMAIN currentTunnels) = 1

-----------------------------------------------------------------------------
(* Properties of a launcher that starts from the cache *)

\* the manager was made from the cache file, and the watcher has delivered the
\* node's tunnels of the record the setup step built the file from
UpdateOfCachedRecord ==
    /\ lastOp = "update"
    /\ launcherOp = "connectivity"
    /\ launcherRes = "ok"
    /\ apiCalls = 0
    /\ desired = crTunnels

\* the last handler issued no delete and no create
NothingDeletedOrCreated ==
    \A k \in DOMAIN cmdLog :
        cmdLog[k].op \notin {"vxlan-delete", "link-add", "vxlan-create"}

\* C30: a launcher started from the cache file of the setup step that receives
\* an update with the tunnels of the record the file was built from deletes and
\* creates nothing.
C30_CachedRecordNoOp == UpdateOfCachedRecord => NothingDeletedOrCreated

\* what the code does: nothing is deleted or created when the setup step wrote
\* the record's tunnels as they are (revision B, or no destination that is a
\* service name); a tunnel whose destination the setup step replaced by an
\* address is deleted and created again by an update that returns
CachedRecordNoOpUnlessResolved ==
    UpdateOfCachedRecord =>
        IF rev = "B" \/ ~needsEndpointLookup(crTunnels)
        THEN NothingDeletedOrCreated
        ELSE phase = "running" =>
                 \A i \in DOMAIN crTunnels :
                     ~IsIPLiteral(crTunnels[i].Destination) =>
                         /\ CmdsAt("vxlan-delete", crTunnels[i].LocalInterface) # {}
                         /\ CreatedByLastCall(crTunnels[i].LocalInterface)

\* the update of the cached record left the tunnels alone
CachedRecordKept ==
    /\ UpdateOfCachedRecord
    /\ crTunnels # <<>>
    /\ cmdLog = <<>>
    /\ vxlanIfs # {}

\* the update of the cached record made the launcher create a tunnel again
CachedRecordReCreated ==
    /\ UpdateOfCachedRecord
    /\ rev = "A"
    /\ \E k \in DOMAIN cmdLog : cmdLog[k].op = "vxlan-create"

-----------------------------------------------------------------------------
(* Properties of the names handed to the delete tool *)

\* C31: the prefix an updateVxlanTunnels call hands to the VXLAN delete tool
\* for a tunnel is the name of the VXLAN interface the create path made for
\* that tunnel, also when the sanitizer changes the local interface name.
C31_DeletePrefixIsCreatedName ==
    lastOp = "update" =>
        \A k \in DiffDeletes : cmdLog[k].arg = VxlanIfOf(cmdLog[k].ifc)

\* the later revision of updateVxlanTunnels hands over the created name
DeletePrefixIsCreatedName_B == rev = "B" => C31_DeletePrefixIsCreatedName

\* the earlier revision does when the sanitizer leaves the name as it is
DeletePrefixOfCleanName_A ==
    (rev = "A" /\ lastOp = "update") =>
        \A k \in DiffDeletes :
            sanitizeLinuxIfName_A(cmdLog[k].ifc) = cmdLog[k].ifc =>
                cmdLog[k].arg = VxlanIfOf(cmdLog[k].ifc)

\* an update that returned deleted the tunnel of an interface that is no
\* longer wanted, and the tunnel's VXLAN interface is still there
DeleteMissedInterface ==
    /\ lastOp = "update"
    /\ phase = "running"
    /\ \E k \in DiffDeletes :
          /\ cmdLog[k].step = "extraneous"
          /\ cmdLog[k].ok
          /\ cmdLog[k].arg # VxlanIfOf(cmdLog[k].ifc)
          /\ VxlanIfOf(cmdLog[k].ifc) \in vxlanIfs

\* an update deleted the interface of a tunnel whose name the sanitizer changes
DeletedSanitizedName ==
    /\ lastOp = "update"
    /\ rev = "B"
    /\ \E k \in DiffDeletes :
          /\ cmdLog[k].ok
          /\ cmdLog[k].ifc = <<"E", "/", "2">>
          /\ cmdLog[k].arg = VxlanIfOf(cmdLog[k].ifc)

-----------------------------------------------------------------------------
(* Properties of the interface names of a Cisco IOL node *)

\* the controller has listed the node's interfaces and the launcher has named
\* the link
ListedAndNamed == naming.listed.done /\ naming.pc # "raw"

\* the bytes both sanitizers keep
KeptByBoth == Range(LowerChars) \cup Range(UpperChars) \cup Range(DigitChars) \cup {"_", "-"}

\* C32: the name listed in SKYFORGE_IOL_LINK_IFACES for an endpoint's raw
\* interface name is the container-side name the launcher creates for it.
C32_IOLNamesAgree ==
    ListedAndNamed => naming.listed.names = <<naming.link>>

\* what the code gives: the two names agree for the raw names that, trimmed,
\* are not empty and hold only letters, digits, "_" and "-" (later revision of
\* the launcher's sanitizer)
IOLNamesAgreeOnPlainNames ==
    (ListedAndNamed /\ rev = "B" /\ TrimSpace(naming.raw) # <<>>
        /\ Range(TrimSpace(naming.raw)) \subseteq KeptByBoth) =>
        naming.listed.names = <<naming.link>>

\* a plain name on which the two agree
IOLNamesAgreed ==
    /\ ListedAndNamed
    /\ rev = "B"
    /\ naming.raw = <<"e","t","h","1">>
    /\ naming.listed.names = <<naming.link>>

\* an interface named as IOL names them: the controller lists "ethernet0_1",
\* the launcher creates "ethernet0-1"
IOLNamesDiffer ==
    /\ ListedAndNamed
    /\ rev = "B"
    /\ naming.raw = <<"E","t","h","e","r","n","e","t","0","/","1">>
    /\ naming.listed.names = << <<"e","t","h","e","r","n","e","t","0","_","1">> >>
    /\ naming.link = <<"e","t","h","e","r","n","e","t","0","-","1">>



\* C33 as it is stated: in native mode the guardian replays the snapshot at
\* start and on every tick until the root context is cancelled, and a failed
\* pass does not stop it, so an address or a route of the snapshot that is
\* missing from eth0 is there again after a later pass, unless the context is
\* cancelled first
SnapAddrs == { podnet.snap.Addrs[i] : i \in DOMAIN podnet.snap.Addrs }
SnapRoutes == { podnet.snap.Routes[i] : i \in DOMAIN podnet.snap.Routes }
AddrMissing(a) ==
    /\ podnet.pc \in {"guard", "pass"} /\ podnet.native /\ podnet.hasSnap
    /\ a \in SnapAddrs
    /\ a \notin podnet.addrs
RouteMissing(r) ==
    /\ podnet.pc \in {"guard", "pass"} /\ podnet.native /\ podnet.hasSnap
    /\ r \in SnapRoutes
    /\ ~\E q \in podnet.routes : q.Dst = r.Dst /\ q.Metric = r.Metric
C33_GuardianReapplies ==
    /\ \A a \in {AddrV4, AddrV6} :
         AddrMissing(a) ~> (a \in podnet.addrs \/ podnet.ctx = "cancelled")
    /\ \A r \in {RouteGwHost, RouteDefault, RouteSvc} :
         RouteMissing(r) ~>
           ((\E q \in podnet.routes : q.Dst = r.Dst /\ q.Metric = r.Metric)
            \/ podnet.ctx = "cancelled")

\* the guardian has returned only after the context was cancelled, whatever
\* its passes returned
GuardianKeptRunning ==
    (podnet.native /\ podnet.pc = "stopped") =>
        (podnet.ctx = "cancelled" /\ podnet.last = "return")
\* with a snapshot file, another pass always begins, until the context is
\* cancelled
PassFollows ==
    (podnet.native /\ podnet.hasSnap /\ podnet.pc \in {"guard", "pass"})
    ~> (podnet.last = "read" \/ podnet.ctx = "cancelled")
\* the command that has just run and succeeded has put its address or its
\* route on eth0
CommandRestores ==
    (podnet.native /\ podnet.last \in {"cmd", "replay"} /\ podnet.log # <<>>
        /\ podnet.log[Len(podnet.log)].ok) =>
        /\ podnet.log[Len(podnet.log)].op = "addr-replace" =>
              podnet.log[Len(podnet.log)].arg \in podnet.addrs
        /\ podnet.log[Len(podnet.log)].op = "route-replace" =>
              \E q \in podnet.routes :
                  /\ q.Dst = podnet.log[Len(podnet.log)].arg.Dst
                  /\ q.Metric = podnet.log[Len(podnet.log)].arg.Metric
\* a pass runs the link command, then one command per address, then one per
\* route, and stops at the first that fails, but for the routes of revision
\* B: the command of an address or route has run only after every command
\* before it that could end the pass had succeeded
PassStopsAtFailure ==
    (podnet.native /\ podnet.pc \in {"guard", "pass"}) =>
        \A i \in DOMAIN podnet.log :
            (~podnet.log[i].ok
                /\ ~(rev = "B" /\ podnet.log[i].op = "route-replace")) =>
                i = Len(podnet.log)
\* a pass that returned no error ran a command for every address and every
\* route of the snapshot
PassRanAll ==
    (podnet.native /\ podnet.hasSnap /\ podnet.last = "replay"
        /\ podnet.err = "none") =>
        /\ \A a \in SnapAddrs :
              \E i \in DOMAIN podnet.log :
                  /\ podnet.log[i].op = "addr-replace" /\ podnet.log[i].arg = a
                  /\ podnet.log[i].ok
        /\ \A r \in SnapRoutes :
              \E i \in DOMAIN podnet.log :
                  /\ podnet.log[i].op = "route-replace"
                  /\ podnet.log[i].arg.Dst = r.Dst
                  /\ podnet.log[i].arg.Metric = r.Metric
                  /\ rev = "A" => podnet.log[i].ok
\* what is missing from eth0 is there again later, unless the context is
\* cancelled or a command of a pass fails
CommandFailed == \E i \in DOMAIN podnet.log : ~podnet.log[i].ok
ReappliedUnlessCommandFails ==
    /\ \A a \in {AddrV4, AddrV6} :
         AddrMissing(a) ~>
           (a \in podnet.addrs \/ podnet.ctx = "cancelled" \/ CommandFailed)
    /\ \A r \in {RouteGwHost, RouteDefault, RouteSvc} :
         RouteMissing(r) ~>
           ((\E q \in podnet.routes : q.Dst = r.Dst /\ q.Metric = r.Metric)
            \/ podnet.ctx = "cancelled" \/ CommandFailed)

\* C33: in native mode the guardian replays the snapshot at start and on
\* every tick until the root context is cancelled; no pass, failed or not,
\* stops it, and with a snapshot file another pass always begins.  A command
\* of a pass that succeeds puts its address or route back; a pass stops at
\* its first failing command (but for the routes of revision B), and one that
\* returned no error ran a command for everything in the snapshot.  What is
\* missing from eth0 is there again later unless the context is cancelled or
\* a command of a pass fails.
C33_GuardianKeepsReplaying ==
    /\ []GuardianKeptRunning
    /\ []CommandRestores
    /\ []PassStopsAtFailure
    /\ []PassRanAll
    /\ PassFollows
    /\ ReappliedUnlessCommandFails
\* a pass that came after a failed one has put back the pod's address
C33_Witness ==
    /\ podnet.pc = "pass" /\ podnet.native /\ podnet.hasSnap
    /\ podnet.failed
    /\ podnet.last = "cmd"
    /\ AddrV4 \notin podnet.prevAddrs
    /\ AddrV4 \in podnet.addrs
    /\ podnet.ctx = "live"
\* the address command of every pass fails: the guardian goes on, pass after
\* pass, and a route the NOS removed has no command in any of them
RouteStarvedByAddress ==
    /\ podnet.native /\ podnet.hasSnap
    /\ podnet.last = "replay"
    /\ podnet.err = "addr"
    /\ podnet.failed
    /\ podnet.ctx = "live"
    /\ RouteDefault \in SnapRoutes
    /\ RouteDefault \notin podnet.routes
    /\ \A i \in DOMAIN podnet.log : podnet.log[i].op # "route-replace"

\* C34: within one replay pass, a failure to restore one address or route
\* does not keep the pass from attempting the remaining addresses and routes:
\* after a pass whose link-up succeeded, every address and every route of the
\* snapshot has its command in the pass's log
AddrAttempted(a) ==
    \E i \in DOMAIN podnet.log :
        podnet.log[i].op = "addr-replace" /\ podnet.log[i].arg = a
RouteAttempted(r) ==
    \E i \in DOMAIN podnet.log :
        /\ podnet.log[i].op = "route-replace"
        /\ podnet.log[i].arg.Dst = r.Dst
        /\ podnet.log[i].arg.Metric = r.Metric
PassWithLinkUp ==
    /\ podnet.pc = "guard"
    /\ podnet.last = "replay"
    /\ podnet.log # <<>>
    /\ podnet.log[1].ok
C34_PassAttemptsAll ==
    PassWithLinkUp =>
        /\ \A a \in SnapAddrs : AddrAttempted(a)
        /\ \A r \in SnapRoutes : RouteAttempted(r)
\* what holds: a failed address command is the last command of its pass, and
\* so is a failed route command of revision A; a pass none of whose commands
\* returned an error attempts every address and every route, revision B
\* dropping the errors of its route commands
FailedAddressEndsPass ==
    podnet.last = "replay" =>
        \A i \in DOMAIN podnet.log :
            (podnet.log[i].op # "route-replace" /\ ~podnet.log[i].ok)
                => i = Len(podnet.log)
FailedRouteEndsPass_A ==
    (podnet.last = "replay" /\ rev = "A") =>
        \A i \in DOMAIN podnet.log : ~podnet.log[i].ok => i = Len(podnet.log)
RoutesAttemptedAfterAddrs ==
    (PassWithLinkUp /\ \A i \in DOMAIN podnet.log :
                          (podnet.log[i].op = "addr-replace" \/ rev = "A")
                              => podnet.log[i].ok)
        => /\ \A a \in SnapAddrs : AddrAttempted(a)
           /\ \A r \in SnapRoutes : RouteAttempted(r)
\* a failed route command of revision B with a later route attempted after it
RouteFailedPassWentOn ==
    /\ PassWithLinkUp
    /\ \E i \in DOMAIN podnet.log :
         /\ podnet.log[i].op = "route-replace"
         /\ ~podnet.log[i].ok
         /\ i < Len(podnet.log)
\* a pass cut short by a failed address: a route of the snapshot is missing
\* from eth0 and the pass has not attempted it
PassCutShort ==
    /\ PassWithLinkUp
    /\ \E i \in DOMAIN podnet.log :
         podnet.log[i].op = "addr-replace" /\ ~podnet.log[i].ok
    /\ \E r \in SnapRoutes :
         /\ ~RouteAttempted(r)
         /\ ~\E q \in podnet.routes : q.Dst = r.Dst /\ q.Metric = r.Metric

\* the NOS acts between two commands of a pass.  Revision A: it removed the
\* route to the gateway before the default route's command, which the kernel
\* refused; the default route that was there stays
RouteRemovedInsidePass_A ==
    /\ rev = "A"
    /\ podnet.last = "replay"
    /\ podnet.err = "route"
    /\ podnet.routes = {RouteDefault}
\* revision B: it set the link down after the address commands; the route
\* commands failed, their errors were dropped and the pass returned nil
LinkDownInsidePass_B ==
    /\ rev = "B"
    /\ podnet.last = "replay"
    /\ podnet.err = "none"
    /\ ~podnet.up
    /\ podnet.routes = {}
    /\ Len(podnet.log) > 2
\* revision A: it removed the pod's address after the address command; the
\* pass put the routes back and returned nil
AddrRemovedInsidePass_A ==
    /\ rev = "A"
    /\ podnet.last = "replay"
    /\ podnet.err = "none"
    /\ podnet.addrs = {}
    /\ podnet.routes = {RouteGwHost, RouteDefault}
\* revision B: the context was cancelled inside a pass; the route commands
\* were not started and the pass returned nil without the routes
CancelledInsidePass_B ==
    /\ rev = "B"
    /\ podnet.last = "replay"
    /\ podnet.err = "none"
    /\ podnet.ctx = "cancelled"
    /\ podnet.nos > 0
    /\ Len(podnet.log) > 2
    /\ RouteDefault \notin podnet.routes

\* C35: after the root context is cancelled the SSH proxy task terminates:
\* runTCPProxy has returned (or was never started), its listener is closed
\* and no connection handler runs
ProxyTaskOver ==
    /\ proxy.pc \in {"off", "skipped", "failed", "returned"}
    /\ proxy.listener = "none"
    /\ proxy.accepted = 0
    /\ proxy.dials = <<>>
    /\ proxy.conns = 0
C35_ProxyStopsOnCancel ==
    (proxy.pc # "new" /\ proxy.ctx = "cancelled") ~> ProxyTaskOver
\* what holds: a task whose context is cancelled during the grace period
\* returns without a listener
CancelledInGraceReturns ==
    (proxy.pc = "wait" /\ proxy.ctx = "cancelled"
        /\ proxy.cancelledAt < proxy.deadline)
    ~> (proxy.pc = "returned" /\ proxy.listener = "none")
\* runTCPProxy leaves its loop only when Accept fails
LoopLeftByAcceptError ==
    [][(proxy.pc = "accept" /\ proxy'.pc # "accept") => AcceptError]_vars
\* the context is cancelled and runTCPProxy still holds its listener
ListeningAfterCancel ==
    /\ proxy.ctx = "cancelled"
    /\ proxy.pc = "accept"
    /\ proxy.listener = ":22"
    /\ proxy.now > proxy.cancelledAt
\* the context is cancelled and a connection is still being proxied
HandlerAfterCancel ==
    /\ proxy.ctx = "cancelled"
    /\ proxy.conns > 0
    /\ proxy.now > proxy.cancelledAt

\* C36: no listener on TCP :22 is opened before the grace period (120 s, 5 s
\* for a Cisco IOL image) is over, and none at all when the dial probe at the
\* end of the grace period connected or the root context was cancelled during
\* the wait
GracePeriod(img) ==
    IF isIOLImage(img) THEN iolWaitBeforeProxy ELSE defaultWaitBeforeProxy
OpenedPort22 == proxy.openedAt # -1 /\ listenAddr(proxy) = ":22"
CancelledDuringWait ==
    /\ proxy.deadline # -1
    /\ proxy.cancelledAt # -1
    /\ proxy.cancelledAt < proxy.deadline
C36_ListenerAfterGrace ==
    /\ OpenedPort22 => proxy.openedAt >= GracePeriod(proxy.img)
    /\ proxy.pc = "skipped" => ~OpenedPort22
    /\ CancelledDuringWait => ~OpenedPort22
    /\ (proxy.pc \in {"new", "wait", "dial", "off"}) => proxy.openedAt = -1
\* what holds: the revisions with a grace period (part_002:106, part_005:22)
\* open no listener on :22 before it is over, none after a probe that
\* connected and none when the context was cancelled during the wait
GraceRevisionsWait ==
    proxy.file \in GraceRevisions => C36_ListenerAfterGrace
\* and the other revisions neither wait nor probe
OtherRevisionsListenAtOnce ==
    proxy.file \notin GraceRevisions =>
        (proxy.deadline = -1 /\ proxy.pc \notin {"wait", "dial", "skipped"})
\* part_004:21: the listener of a vrnetlab QEMU node is open on :22 from the
\* start of the launcher, and QEMU has not bound its port
ListenerAtOnce ==
    /\ proxy.file = "part_004:21"
    /\ proxy.img = ImageVrCsr17
    /\ proxy.pc = "accept"
    /\ proxy.listener = ":22"
    /\ proxy.openedAt = 0
    /\ proxy.port22 = "free"
\* part_003:24: the same for a node of kind cisco_iol, whatever its image
ListenerAtOnceByKind ==
    /\ proxy.file = "part_003:24"
    /\ proxy.kind = KindCiscoIOLMixedCase
    /\ proxy.img = ImageSrlinux
    /\ proxy.listener = ":22"
    /\ proxy.openedAt = 0
\* the listener of an IOL node, opened when its five seconds were over
ListenerAfterIolGrace ==
    /\ OpenedPort22
    /\ proxy.listener = ":22"
    /\ isIOLImage(proxy.img)
    /\ proxy.openedAt = iolWaitBeforeProxy
    /\ proxy.probe = "refused"
\* the probe connected to QEMU's port and the task ended without a listener
ProxySkipped ==
    /\ proxy.pc = "skipped"
    /\ proxy.probe = "connected"
    /\ proxy.port22 = "qemu"
    /\ proxy.openedAt = -1
\* the context was cancelled in the grace period and the task returned
ProxyCancelledInGrace ==
    /\ CancelledDuringWait
    /\ proxy.pc = "returned"
    /\ proxy.now >= proxy.deadline
    /\ proxy.openedAt = -1

\* C37 as it is stated: the setup step's wait for the Connectivity record
\* always ends.  Its Get requests start at least a second apart; a step that
\* waited ends with the record read and the record's tunnels written to the
\* cache file, or, with the deadline (30 to 60 s) passed, with an error and
\* the cache file unwritten
WaitTimedOut == setup.pc = "done" /\ apiErr
Waited == setup.pc = "done" /\ setup.deadline # -1
CachedList ==
    IF rev = "A" THEN resolveTunnelDestinationsToEndpointIPs(crTunnels)
    ELSE crTunnels
RecordWritten ==
    /\ setup.got
    /\ launcherRes = "ok"
    /\ Unmarshal(file.bytes).ok
    /\ Unmarshal(file.bytes).v = CachedList
TimedOutUnwritten ==
    /\ WaitTimedOut
    /\ ~setup.got
    /\ launcherRes = "error"
    /\ file = filePrev
    /\ ~fileAlreadyPresent(file)
    /\ setup.deadline \in 30..60
    /\ setup.now >= setup.deadline
WrittenOrTimedOut == Waited => (RecordWritten \/ TimedOutUnwritten)
C37_AsClaimed ==
    /\ [](setup.gap >= tunnelsCRFetchInterval)
    /\ []WrittenOrTimedOut
    /\ <>(setup.pc = "done")

\* C37, amended: the setup step always ends.  The Get requests of its wait
\* start at least a second apart, and the wait ends with the record read or,
\* with the deadline (30 s in revision B, 60 s in revision A) passed, with an
\* error and the cache file unwritten.  A step that has read the record writes
\* the record's tunnels to the cache file unless what follows the wait fails:
\* in revision A the making of the client or the lookup of a service
\* destination's endpoints (given up 60 s after its start), in both revisions
\* the write.  It then ends with an error (or is killed inside the write)
\* and the file as it was or, after a failed write, a prefix of the list
IsPrefix(a, b) == Len(a) <= Len(b) /\ a = SubSeq(b, 1, Len(a))
ReadNotWritten ==
    /\ setup.got
    /\ ~apiErr
    /\ setup.end \in {"config", "endpoints", "write"}
    /\ setup.end \in {"config", "endpoints"} =>
         (rev = "A" /\ launcherRes = "error" /\ file = filePrev)
    /\ setup.end = "endpoints" =>
         /\ needsEndpointLookup(crTunnels)
         /\ setup.now >= setup.epDeadline
         /\ setup.epDeadline >= setup.lastGet + endpointDeadline
    /\ setup.end = "write" =>
         /\ launcherRes \in {"write-error", "killed"}
         /\ \/ file = filePrev
            \/ file.exists /\ IsPrefix(file.bytes, Marshal(CachedList))
SetupWaitOutcome ==
    /\ setup.gap >= tunnelsCRFetchInterval
    /\ WaitTimedOut => TimedOutUnwritten
    /\ Waited => (WaitTimedOut \/ setup.got)
    /\ (Waited /\ setup.got) => (RecordWritten \/ ReadNotWritten)
    /\ (Waited /\ launcherRes = "ok") => (setup.present /\ RecordWritten)
    /\ (setup.pc = "done" /\ setup.end = "mkdir") =>
         (launcherRes = "error" /\ file = filePrev /\ apiCalls = 0)
    /\ (setup.pc = "loop") => setup.now <= setup.deadline + getTimeout_A
                                           + tunnelsCRFetchInterval
    /\ (setup.pc = "resolve" /\ setup.epDeadline # -1) =>
         setup.now <= setup.epDeadline + endpointGetTimeout + endpointRetryInterval
C37_SetupWaitTerminates == []SetupWaitOutcome /\ <>(setup.pc = "done")
\* the wait ended at the deadline, after more than one Get
C37_Witness ==
    /\ WaitTimedOut
    /\ apiCalls >= 2
    /\ setup.now >= setup.deadline
    /\ file = NoFile
\* the record came while the step was waiting and its tunnel was cached
RecordCachedAfterRetries ==
    /\ setup.pc = "done"
    /\ launcherRes = "ok"
    /\ apiCalls >= 3
    /\ Len(crTunnels) = 1
    /\ fileAlreadyPresent(file)
    /\ filePrev = NoFile
\* the record was read and the write of the file failed at its open
RecordReadWriteFailed ==
    /\ Waited
    /\ setup.got
    /\ setup.end = "write"
    /\ launcherRes = "write-error"
    /\ file = NoFile
\* revision A read the record at its first Get and gave up the lookup of the
\* endpoints a minute later, after a Get a second
RecordReadLookupGaveUp ==
    /\ Waited
    /\ setup.got
    /\ setup.end = "endpoints"
    /\ setup.now = endpointDeadline
    /\ apiCalls = 1 + maxEndpointGets
    /\ file = NoFile
\* the same with Gets that time out: ten of them
RecordReadLookupTimedOut ==
    /\ Waited
    /\ setup.end = "endpoints"
    /\ setup.lastGet = 0
    /\ setup.epDur = endpointGetTimeout
    /\ apiCalls = 1 + minEndpointGets
\* os.MkdirAll failed: the step ended before its wait
MkdirFailedNoWait ==
    /\ setup.pc = "done"
    /\ setup.end = "mkdir"
    /\ setup.deadline = -1
    /\ launcherRes = "error"

\* C38: every tunnel in the cache file the setup step wrote has an IP-literal
\* destination, and a setup step that fails before its write (a destination
\* could not be resolved, the record could not be read) leaves the file as it
\* was
CachedTunnels == Unmarshal(file.bytes)
AllDestinationsAreIPs(list) ==
    \A i \in DOMAIN list : IsIPLiteral(list[i].Destination)
C38_CachedDestinationsAreIPs ==
    /\ (file.exists /\ CachedTunnels.ok) => AllDestinationsAreIPs(CachedTunnels.v)
    /\ (launcherOp = "setup" /\ launcherRes = "error") => file = filePrev
\* what holds: the setup step of connectivity.go (revision A) caches IP
\* literals only; that of part_007 (revision B) caches the record's tunnels as
\* they are; a setup step of either that fails before its write leaves the
\* file as it was, one whose os.WriteFile fails leaves the file as it was (the
\* open failed) or the first bytes of the list, down to none
CachedDestinationsByRevision ==
    /\ (rev = "A" /\ file.exists /\ CachedTunnels.ok)
         => /\ AllDestinationsAreIPs(CachedTunnels.v)
            /\ CachedTunnels.v = resolveTunnelDestinationsToEndpointIPs(crTunnels)
    /\ (rev = "B" /\ file.exists /\ CachedTunnels.ok) => CachedTunnels.v = crTunnels
    /\ (launcherOp = "setup" /\ launcherRes = "error") => file = filePrev
    /\ (launcherOp = "setup" /\ launcherRes = "write-error") =>
          \/ file = filePrev
          \/ file.exists /\ IsPrefix(file.bytes, Marshal(CachedList))
\* os.WriteFile failed after it had truncated the file: the setup step
\* returned the error and left a file that does not parse
FailedWriteLeftPrefix ==
    /\ launcherOp = "setup" /\ launcherRes = "write-error"
    /\ pod = "init"
    /\ filePrev = NoFile
    /\ PresentNonEmpty(file)
    /\ ~CachedTunnels.ok
\* os.WriteFile failed in its open: the setup step returned the error and
\* there is no file
FailedOpenLeftNoFile ==
    /\ launcherOp = "setup" /\ launcherRes = "write-error"
    /\ pod = "init"
    /\ file = NoFile
    /\ apiCalls > 0
\* a service name of the record, cached as the address of its endpoint
ServiceNameCachedAsIP ==
    /\ rev = "A"
    /\ launcherOp = "setup" /\ launcherRes = "ok"
    /\ \E i \in DOMAIN crTunnels : ~IsIPLiteral(crTunnels[i].Destination)
    /\ CachedTunnels.ok
    /\ Len(CachedTunnels.v) = Len(crTunnels)
    /\ AllDestinationsAreIPs(CachedTunnels.v)
\* the lookup of an endpoint failed: the step failed after the record was
\* read and there is no file
UnresolvedNothingCached ==
    /\ rev = "A"
    /\ launcherOp = "setup" /\ launcherRes = "error" /\ ~apiErr
    /\ apiCalls > 0
    /\ file = NoFile
\* a service name in the cache file
ServiceNameCached ==
    /\ launcherOp = "setup" /\ launcherRes = "ok"
    /\ CachedTunnels.ok
    /\ \E i \in DOMAIN CachedTunnels.v : ~IsIPLiteral(CachedTunnels.v[i].Destination)

-----------------------------------------------------------------------------
(* C39: the security context of the NOS container of a vrnetlab node         *)

NosContainers ==
    { overrides.containers[i] : i \in { j \in DOMAIN overrides.containers :
                                          overrides.containers[j].Role = "nos" } }

RenderedNativeVrnetlab ==
    /\ overrides.pc = "deployed"
    /\ overrides.native
    /\ VrnetlabQemuNode(overrides.in)

\* C39: in the Deployment Render returns for a native-mode vrnetlab-QEMU node,
\* the NOS container's security context is Privileged=true, RunAsUser=0,
\* AllowPrivilegeEscalation=true, with the privileged-launcher option on or off
C39_NosPrivileged ==
    RenderedNativeVrnetlab =>
        \A c \in NosContainers : c.SecurityContext = vrnetlabSecurityContext

\* what the code does: the NOS container has the context of every other
\* container, privileged exactly when the privileged-launcher option is on, and
\* AllowPrivilegeEscalation is never set
NosContextIsTheLaunchers ==
    overrides.pc = "deployed" =>
        \A c \in Range(overrides.containers) :
            /\ c.SecurityContext.Privileged =
                   (IF overrides.PrivilegedLauncher THEN "true" ELSE "false")
            /\ c.SecurityContext.RunAsUser = "0"
            /\ c.SecurityContext.AllowPrivilegeEscalation = "nil"

\* a native vrnetlab node rendered with the privileged-launcher option off: its
\* NOS container is not privileged
NosNotPrivileged ==
    /\ RenderedNativeVrnetlab
    /\ ~overrides.PrivilegedLauncher
    /\ \E c \in NosContainers : c.SecurityContext.Privileged = "false"

\* a native vrnetlab node rendered with the privileged-launcher option on: its
\* NOS container is privileged, without AllowPrivilegeEscalation
NosPrivilegedNoEscalation ==
    /\ RenderedNativeVrnetlab
    /\ overrides.PrivilegedLauncher
    /\ \E c \in NosContainers : c.SecurityContext = SecurityContext("true", "0", "nil", {})

-----------------------------------------------------------------------------
(* C40: the mount paths of a container and the names of the pod's volumes    *)

\* two volumes of the pod have the same name
SameVolumeName(a, b) == a.Name = b.Name

MountPathsDistinct(mounts) ==
    \A i, j \in DOMAIN mounts : i < j => mounts[i].MountPath # mounts[j].MountPath
PodVolumeNamesDistinct ==
    \A i, j \in DOMAIN overrides.volumes :
        i < j => ~SameVolumeName(overrides.volumes[i], overrides.volumes[j])

\* C40: in the Deployment Render returns, no container has two volume mounts
\* with the same mount path and no two volumes of the pod have the same name
C40_MountsAndVolumesDistinct ==
    overrides.pc = "deployed" =>
        /\ MountPathsDistinct(overrides.launcher)
        /\ MountPathsDistinct(overrides.nos.Mounts)
        /\ PodVolumeNamesDistinct

\* the FilesFromConfigMap entries of the node name a ConfigMap's path twice
SamePathOfConfigMapTwice(in) ==
    \E i, j \in DOMAIN in.Files :
        i < j /\ fileVolumeName(in.Files[i]) = fileVolumeName(in.Files[j])
\* a FilesFromConfigMap entry of the node is mounted where the persistence
\* volume is
FileAtPersistenceMount(in) ==
    \E i \in DOMAIN in.Files :
        fileMountPath(in.Files[i])
            = PathOf(ClabernetesDir, StringOf(<<"clab-clabernetes-">> \o in.NodeName))

\* what the code does: the mount paths of the NOS container are distinct, the
\* launcher's mount paths are distinct unless persistence is enabled and a
\* file is mounted at the
\* persistence mount, and the pod's volume names are distinct unless two
\* entries name the same path of the same ConfigMap
DistinctButForFilesAndPersistence ==
    overrides.pc = "deployed" =>
        /\ MountPathsDistinct(overrides.nos.Mounts)
        /\ MountPathsDistinct(overrides.launcher)
              <=> ~(overrides.Persistence /\ FileAtPersistenceMount(overrides.in))
        /\ (\A i, j \in DOMAIN overrides.volumes :
              i < j => ~SameVolumeName(overrides.volumes[i], overrides.volumes[j]))
              <=> ~SamePathOfConfigMapTwice(overrides.in)

\* a node with two files of one ConfigMap path: two volumes of the pod have
\* the same name
TwoVolumesOfOneName ==
    /\ overrides.pc = "deployed"
    /\ SamePathOfConfigMapTwice(overrides.in)
    /\ \E i, j \in DOMAIN overrides.volumes :
          i < j /\ SameVolumeName(overrides.volumes[i], overrides.volumes[j])

\* persistence enabled and a file mounted at the persistence mount: the
\* launcher has two mounts of one path
TwoLauncherMountsOfOnePath ==
    /\ overrides.pc = "deployed"
    /\ overrides.Persistence
    /\ ~MountPathsDistinct(overrides.launcher)

\* two files with one FilePath, or a file at a path clabernetes mounts: the
\* launcher has one mount of the path
CollidingFileMountSkipped ==
    /\ overrides.pc = "deployed"
    /\ Len(overrides.in.Files) > 0
    /\ \E i \in DOMAIN overrides.in.Files :
          Cardinality({ k \in DOMAIN overrides.launcher :
                          overrides.launcher[k].MountPath
                              = fileMountPath(overrides.in.Files[i])
                          /\ overrides.launcher[k].SubPath
                              = overrides.in.Files[i].ConfigMapPath }) = 0
    /\ MountPathsDistinct(overrides.launcher)

\* a native ceos node with a bind: the NOS container has the tmpfs mounts, the
\* bind and the device mounts, all at distinct paths
NosMountsOfCeosWithBind ==
    /\ overrides.pc = "deployed"
    /\ overrides.native
    /\ overrides.in.Kind = KindCeos
    /\ Len(overrides.in.Binds) > 0
    /\ Len(overrides.nos.Mounts) >= 8
    /\ MountPathsDistinct(overrides.nos.Mounts)
====
